---- MODULE Spec2Model ----
(***************************************************************************)
(* Model of the AlphaZero search core of KarelPeeters/AlphaZero:           *)
(*   - the step engine (zero_step_gather / zero_step_apply) of             *)
(*     rust/kz-core/src/zero/step.rs and rust/alpha-zero/src/zero/step.rs, *)
(*   - the batch driver ZeroSettings::expand_tree of                       *)
(*     rust/alpha-zero/src/zero/wrapper.rs,                                *)
(*   - the resumable driver ZeroState / zero_build_tree and                *)
(*     Tree::keep_move of rust/alpha-zero/src/non_solve_zero.rs.           *)
(*                                                                         *)
(* Conventions.  Option<T> is a sequence of length at most one:            *)
(* None == <<>>, Some(x) == <<x>>.  Node indices are 0-based as in the     *)
(* source; node n of arena t is t[n + 1].  f32 quantities are exact        *)
(* integers: a WDL component 1.0 is the integer 1, a policy entry 1.0 is   *)
(* PolicyDen.  Means and PUCT scores are compared as exact fractions.      *)
(***************************************************************************)
EXTENDS Integers, Sequences, FiniteSets, TLC

VARIABLES
    prog,            \* which program runs: "kz_step", "az_step", "expand_tree", "zero_state"
    fpu_mode,        \* FpuMode of the alpha-zero step engine: "Fixed" or "Parent"
    root_board,      \* Tree.root_board
    tree,            \* the node arena (Tree.nodes)
    requests,        \* requests gathered and not yet applied (requests / sub_requests)
    expected_nodes,  \* ZeroState.expected_nodes
    response,        \* zero_build_tree: the response handed to the next run_until_result
    result,          \* zero_build_tree: the RunResult of the last run_until_result
    pc,              \* position of the driver
    target,          \* visit target N (ZeroBot.visits / target_iterations)
    batch_size,      \* settings.batch_size
    stop,            \* the external stop condition has become true
    kept,            \* result of Tree::keep_move on the returned tree
    last,            \* the operation performed by the last step
    hist,            \* tree after the last gather and the responses applied since
    untracked,       \* parity of the gathers made after the visit counters reached MaxVisits
    rejected,        \* zero_step_apply has refused a response handed in against the protocol
    sttt,            \* the ultimate tic-tac-toe board of src/board.rs in play
    sym_test,        \* the last run of the body of test::symmetries on sttt, and the priors read
    random_move,     \* the last call of Board::random_available_move on sttt
    idx_range,       \* a call of IdxRange::new: its arguments and what it returned
    chess,           \* mapping/chess.rs: a board, a legal move, its policy index and the move read back
    gpu,             \* test-async: the job channel, the clients and the executor thread gpu_main
    server,          \* the self-play server: commander, generators, collector and their channels
    panic            \* an assertion of the program has failed

vars == <<prog, fpu_mode, root_board, tree, requests, expected_nodes, response, result, pc,
          target, batch_size, stop, kept, last, hist, untracked, rejected, sttt, sym_test, random_move,
          idx_range, chess, gpu, server, panic>>

\* the state of the programs beside the search and the play on the board
other_vars == <<random_move, idx_range, chess, gpu, server>>

(***************************************************************************)
(* Bounds of the model.                                                    *)
(***************************************************************************)
MaxHeap == 3           \* size of the game: most tokens on the heap of the root board
MaxGathers == 2        \* step engine used freely: number of gather calls
MaxTarget == 3         \* drivers: largest visit target N
MaxBatch == 2          \* drivers: largest batch size B
MaxVisits == 7         \* drivers: largest tracked value of the root's visit counter
ExplorationWeight == 2 \* c_puct

PolicyDen == 3         \* a policy entry p stands for p / PolicyDen

Some(x) == <<x>>
None == <<>>
Min(a, b) == IF a < b THEN a ELSE b

(***************************************************************************)
(* The game behind `B: Board`: a two-player take-away game.  A move takes  *)
(* 1 or 2 tokens; the game is done when the heap is empty.  Taking the     *)
(* last token alone wins, taking the last two tokens is a draw.            *)
(***************************************************************************)
MaxTake == 2

other(p) == IF p = "A" THEN "B" ELSE "A"

\* the boards a search is started on
StartBoards == {[heap |-> h, next |-> "A", taken |-> 0] : h \in 1..MaxHeap}

next_player(b) == b.next

\* legal moves in the board's native order
available_moves(b) == [i \in 1..Min(MaxTake, b.heap) |-> i]

play(b, mv) == [heap |-> b.heap - mv, next |-> other(b.next), taken |-> mv]

\* Option<Outcome>: WonBy(player) is the player's name, or "Draw"
outcome(b) ==
    IF b.heap > 0 THEN None
    ELSE IF b.taken = MaxTake THEN Some("Draw")
    ELSE Some(other(b.next))

is_done(b) == outcome(b) # None

\* Outcome::pov(player) -> OutcomeWDL
pov(o, player) ==
    IF o = "Draw" THEN "Draw" ELSE IF o = player THEN "Win" ELSE "Loss"

(***************************************************************************)
(* Values.  A WDL is <<win, draw, loss>>; an absolute WDL (kz-core) is     *)
(* <<win_a, draw, win_b>>.  ZeroValues carry a WDL and moves_left.         *)
(***************************************************************************)
WDL_default == <<0, 0, 0>>

WDL_add(x, y) == <<x[1] + y[1], x[2] + y[2], x[3] + y[3]>>

WDL_sub(x, y) == <<x[1] - y[1], x[2] - y[2], x[3] - y[3]>>

\* Flip::flip on a WDL: win and loss change places
WDL_flip(x) == <<x[3], x[2], x[1]>>

\* WDL::value()
WDL_value(x) == x[1] - x[3]

\* OutcomeWDL::to_wdl()
to_wdl(o) == IF o = "Win" THEN <<1, 0, 0>> ELSE IF o = "Draw" THEN <<0, 1, 0>> ELSE <<0, 0, 1>>

\* Outcome -> WDLAbs (win_a, draw, win_b)
to_wdl_abs(o) == IF o = "A" THEN <<1, 0, 0>> ELSE IF o = "Draw" THEN <<0, 1, 0>> ELSE <<0, 0, 1>>

ZeroValues_zero == [wdl |-> WDL_default, moves_left |-> 0]

ZeroValues_add(x, y) == [wdl |-> WDL_add(x.wdl, y.wdl), moves_left |-> x.moves_left + y.moves_left]

\* alpha-zero ZeroValues::from_outcome(OutcomeWDL)
ZeroValues_from_outcome(o) == [wdl |-> to_wdl(o), moves_left |-> 0]

\* kz-core ZeroValuesAbs::from_outcome(outcome, 0.0)
ZeroValuesAbs_from_outcome(o) == [wdl |-> to_wdl_abs(o), moves_left |-> 0]

ZeroValues_flip(v) == [wdl |-> WDL_flip(v.wdl), moves_left |-> v.moves_left]

\* alpha-zero ZeroValues::parent(): the value seen one ply earlier, by the other player
ZeroValues_parent(v) == [wdl |-> WDL_flip(v.wdl), moves_left |-> v.moves_left + 1]

\* kz-core ZeroValuesAbs::parent(): absolute values do not flip
ZeroValuesAbs_parent(v) == [wdl |-> v.wdl, moves_left |-> v.moves_left + 1]

\* ZeroValuesPov::un_pov(player) -> ZeroValuesAbs
un_pov(v, player) == IF player = "A" THEN v ELSE ZeroValues_flip(v)

(***************************************************************************)
(* Nodes and the arena of the step engine.                                 *)
(***************************************************************************)
NAN_POLICY == -1

Node_new(parent, last_move, p) ==
    [parent |-> parent, last_move |-> last_move, children |-> None,
     net_values |-> None, net_policy |-> p,
     complete_visits |-> 0, virtual_visits |-> 0, sum_values |-> ZeroValues_zero]

Tree_new == <<Node_new(None, None, NAN_POLICY)>>

len(t) == Len(t)

NodeAt(t, n) == t[n + 1]

total_visits(node) == node.complete_visits + node.virtual_visits

\* IdxRange::new(start, end): Option, None when one of its assertions fails
\* u8::MAX
U8_MAX == 2 ^ 8 - 1

\* mutant: the length is cast to u8, not converted
IdxRange_new_cast(start, end) ==
    IF end > start /\ start # 0
    THEN Some([start |-> start, length |-> (end - start) % (U8_MAX + 1)])
    ELSE None

IdxRange_new(start, end) ==
    IF end > start /\ start # 0 /\ end - start <= U8_MAX
    THEN Some([start |-> start, length |-> end - start])
    ELSE None

\* IdxRange::iter(): the indices of the range, in order
IdxRange_iter(r) == [i \in 1..r.length |-> r.start + i - 1]

IdxRange_set(r) == {r.start + i : i \in 0..(r.length - 1)}

(***************************************************************************)
(* tree_propagate_values.  The result is [ok, tree]; ok is FALSE when      *)
(* assert!(curr_node.virtual_visits > 0) fails.                            *)
(***************************************************************************)
RECURSIVE kz_propagate_loop(_, _, _)
kz_propagate_loop(t, curr_index, values) ==
    LET curr_node == NodeAt(t, curr_index) IN
    IF ~(curr_node.virtual_visits > 0) THEN [ok |-> FALSE, tree |-> t]
    ELSE
        LET t1 == [t EXCEPT ![curr_index + 1] =
                      [@ EXCEPT !.complete_visits = @ + 1,
                                !.virtual_visits = @ - 1,
                                !.sum_values = ZeroValues_add(@, values)]]
        IN IF curr_node.parent = None THEN [ok |-> TRUE, tree |-> t1]
           ELSE kz_propagate_loop(t1, curr_node.parent[1], ZeroValuesAbs_parent(values))

\* mutant: the root's virtual_visits is not decremented
kz_tree_propagate_values_keeps_virtual(t, node, values) ==
    LET r == kz_propagate_loop(t, node, values)
    IN  [ok |-> r.ok, tree |-> [r.tree EXCEPT ![1].virtual_visits = t[1].virtual_visits]]

\* mutant: the loop ends before the root is updated
kz_tree_propagate_values_skips_root(t, node, values) ==
    LET r == kz_propagate_loop(t, node, values)
    IN  [ok |-> r.ok, tree |-> [r.tree EXCEPT ![1] = t[1]]]

kz_tree_propagate_values(t, node, values) == kz_propagate_loop(t, node, values)

RECURSIVE az_propagate_loop(_, _, _)
az_propagate_loop(t, curr_index, values0) ==
    LET values == ZeroValues_parent(values0)
        curr_node == NodeAt(t, curr_index) IN
    IF ~(curr_node.virtual_visits > 0) THEN [ok |-> FALSE, tree |-> t]
    ELSE
        LET t1 == [t EXCEPT ![curr_index + 1] =
                      [@ EXCEPT !.complete_visits = @ + 1,
                                !.virtual_visits = @ - 1,
                                !.sum_values = ZeroValues_add(@, values)]]
        IN IF curr_node.parent = None THEN [ok |-> TRUE, tree |-> t1]
           ELSE az_propagate_loop(t1, curr_node.parent[1], values)

\* mutant: `sum_values = values` in place of `sum_values += values`
RECURSIVE az_propagate_loop_assigns(_, _, _)
az_propagate_loop_assigns(t, curr_index, values0) ==
    LET values == ZeroValues_parent(values0)
        curr_node == NodeAt(t, curr_index) IN
    IF ~(curr_node.virtual_visits > 0) THEN [ok |-> FALSE, tree |-> t]
    ELSE
        LET t1 == [t EXCEPT ![curr_index + 1] =
                      [@ EXCEPT !.complete_visits = @ + 1,
                                !.virtual_visits = @ - 1,
                                !.sum_values = values]]
        IN IF curr_node.parent = None THEN [ok |-> TRUE, tree |-> t1]
           ELSE az_propagate_loop_assigns(t1, curr_node.parent[1], values)

az_tree_propagate_values_assigns(t, node, values) == az_propagate_loop_assigns(t, node, values)

\* mutant: the loop breaks after the first node
az_tree_propagate_values_breaks(t, node, values) ==
    LET r == az_propagate_loop([t EXCEPT ![node + 1].parent = None], node, values)
    IN  [ok |-> r.ok, tree |-> [r.tree EXCEPT ![node + 1].parent = t[node + 1].parent]]

az_tree_propagate_values(t, node, values) == az_propagate_loop(t, node, values)

tree_propagate_values(flavor, t, node, values) ==
    IF flavor = "kz" THEN kz_tree_propagate_values(t, node, values)
    ELSE az_tree_propagate_values(t, node, values)

(***************************************************************************)
(* PUCT.  A score is q + ExplorationWeight * P * sqrt(N) / (1 + n) with    *)
(* P = net_policy / PolicyDen.  It is kept scaled by PolicyDen, as         *)
(* qn / qd + (un / ud) * sqrt(N).  ScoreGE compares two scores exactly:    *)
(* X + Y * sqrt(N) is their difference times the (positive) denominators.  *)
(***************************************************************************)
Score(qn, qd, policy, visits) == [qn |-> PolicyDen * qn, qd |-> qd,
                                  un |-> ExplorationWeight * policy, ud |-> 1 + visits]

ScoreGE(s1, s2, parent_visits) ==
    LET X == (s1.qn * s2.qd - s2.qn * s1.qd) * (s1.ud * s2.ud)
        Y == (s1.un * s2.ud - s2.un * s1.ud) * (s1.qd * s2.qd)
    IN  IF X >= 0 /\ Y >= 0 THEN TRUE
        ELSE IF X < 0 /\ Y < 0 THEN FALSE
        ELSE IF X >= 0 THEN X * X >= Y * Y * parent_visits
        ELSE Y * Y * parent_visits >= X * X

\* the candidates with a maximal score
MaxChildren(cands, score, parent_visits) ==
    {c \in cands : \A d \in cands : ScoreGE(score[c], score[d], parent_visits)}

SetMax(S) == CHOOSE x \in S : \A y \in S : y <= x

SetMin(S) == CHOOSE x \in S : \A y \in S : x <= y

\* mutant: of several maximal elements the first one is returned
max_by_key_first(cands, score, parent_visits) ==
    SetMin(MaxChildren(cands, score, parent_visits))

\* Iterator::max_by_key: of several maximal elements the last one is returned
max_by_key(cands, score, parent_visits) ==
    SetMax(MaxChildren(cands, score, parent_visits))

\* Node::uct of the step engine.  q is the child's mean once it has a
\* complete visit and the first-play urgency before.
az_uct(child, fpu) ==
    IF child.complete_visits > 0
    THEN Score(WDL_value(child.sum_values.wdl), child.complete_visits,
               child.net_policy, total_visits(child))
    ELSE Score(WDL_value(fpu.wdl), fpu.den, child.net_policy, total_visits(child))

\* kz-core: values are absolute and are taken to the point of view of curr_player
kz_uct(child, curr_player) ==
    LET abs == WDL_value(child.sum_values.wdl)
        q == IF curr_player = "A" THEN abs ELSE 0 - abs
    IN  IF child.complete_visits > 0
        THEN Score(q, child.complete_visits, child.net_policy, total_visits(child))
        ELSE Score(0, 1, child.net_policy, total_visits(child))

\* FpuMode::select
FpuMode_select(mode, parent_flipped) ==
    IF mode = "Fixed" THEN [wdl |-> <<0, 1, 0>>, den |-> 1] ELSE parent_flipped

\* kz_util::sequence::choose_max_by_key: a maximal element picked by the rng
choose_max_by_key(cands, score, parent_visits) == MaxChildren(cands, score, parent_visits)

(***************************************************************************)
(* zero_step_gather.  A result is [ok, tree, request, node]: the arena     *)
(* after the call, the yielded request (an Option) and the node where the  *)
(* descent ended; ok is FALSE when an assertion of the code failed.  The   *)
(* loops yield the set of results the call can have; the state of the next *)
(* iteration is bound as a value (a \in {...}) before the loop is entered  *)
(* again.                                                                  *)
(***************************************************************************)
ZeroRequest(node, board) == [node |-> node, board |-> board]

\* mutant: a node counts as unexpanded until its evaluation has arrived
children_is_none_by_values(node) == node.net_values = None

\* `match tree[curr_node].children { None => ...`: the node is to be expanded
children_is_none(node) == node.children = None

\* mutant: the expansion counts as a complete visit of the expanded node
expand_counts_visit(t, curr_node, curr_board) ==
    LET start == len(t)
        moves == available_moves(curr_board)
        t1 == t \o [i \in 1..Len(moves) |-> Node_new(Some(curr_node), Some(moves[i]), PolicyDen)]
        end == len(t1)
        range == IdxRange_new(start, end)
    IN  IF range = None
        THEN [ok |-> FALSE, tree |-> t1, request |-> None, node |-> curr_node]
        ELSE [ok |-> TRUE,
              tree |-> [t1 EXCEPT ![curr_node + 1] =
                           [@ EXCEPT !.children = range, !.net_values = None,
                                     !.complete_visits = @ + 1]],
              request |-> Some(ZeroRequest(curr_node, curr_board)),
              node |-> curr_node]

\* the None arm of the match: initialize the children with uniform policy
expand(t, curr_node, curr_board) ==
    LET start == len(t)
        moves == available_moves(curr_board)
        t1 == t \o [i \in 1..Len(moves) |-> Node_new(Some(curr_node), Some(moves[i]), PolicyDen)]
        end == len(t1)
        range == IdxRange_new(start, end)
    IN  IF range = None
        THEN [ok |-> FALSE, tree |-> t1, request |-> None, node |-> curr_node]
        ELSE [ok |-> TRUE,
              tree |-> [t1 EXCEPT ![curr_node + 1] = [@ EXCEPT !.children = range, !.net_values = None]],
              request |-> Some(ZeroRequest(curr_node, curr_board)),
              node |-> curr_node]

FPU_DRAW == [wdl |-> <<0, 1, 0>>, den |-> 1]

RECURSIVE az_gather_loop(_, _, _, _, _)
az_gather_loop(mode, t0, curr_node, curr_board, fpu0) ==
    LET t == [t0 EXCEPT ![curr_node + 1].virtual_visits = @ + 1]
        node == NodeAt(t, curr_node)
    IN  IF outcome(curr_board) # None THEN
            LET o == pov(outcome(curr_board)[1], next_player(curr_board))
                p == az_tree_propagate_values(t, curr_node, ZeroValues_from_outcome(o))
            IN  {[ok |-> p.ok, tree |-> p.tree, request |-> None, node |-> curr_node]}
        ELSE IF children_is_none(node) THEN {expand(t, curr_node, curr_board)}
        ELSE
            LET children == node.children[1]
                fpu1 == IF node.complete_visits > 0
                        THEN [wdl |-> node.sum_values.wdl, den |-> node.complete_visits]
                        ELSE fpu0
                fpu == [wdl |-> WDL_flip(fpu1.wdl), den |-> fpu1.den]
                parent_total_visits == total_visits(node)
                selected == max_by_key(IdxRange_set(children),
                                       [c \in IdxRange_set(children) |->
                                           az_uct(NodeAt(t, c), FpuMode_select(mode, fpu))],
                                       parent_total_visits)
            IN  UNION {az_gather_loop(mode, a.tree, a.node, a.board, a.fpu) :
                          a \in {[tree |-> t, node |-> selected, fpu |-> fpu,
                                  board |-> play(curr_board, NodeAt(t, selected).last_move[1])]}}

RECURSIVE kz_gather_loop(_, _, _)
kz_gather_loop(t0, curr_node, curr_board) ==
    LET t == [t0 EXCEPT ![curr_node + 1].virtual_visits = @ + 1]
        node == NodeAt(t, curr_node)
    IN  IF outcome(curr_board) # None THEN
            LET p == kz_tree_propagate_values(t, curr_node,
                                              ZeroValuesAbs_from_outcome(outcome(curr_board)[1]))
            IN  {[ok |-> p.ok, tree |-> p.tree, request |-> None, node |-> curr_node]}
        ELSE IF children_is_none(node) THEN {expand(t, curr_node, curr_board)}
        ELSE
            LET children == node.children[1]
                curr_player == next_player(curr_board)
                selected == choose_max_by_key(IdxRange_set(children),
                                              [c \in IdxRange_set(children) |->
                                                  kz_uct(NodeAt(t, c), curr_player)],
                                              total_visits(node))
            IN  UNION {kz_gather_loop(a.tree, a.node, a.board) :
                          a \in {[tree |-> t, node |-> c,
                                  board |-> play(curr_board, NodeAt(t, c).last_move[1])] :
                                     c \in selected}}

\* the set of results the call can have (one per outcome of the rng)
zero_step_gather(flavor, mode, t, board) ==
    IF flavor = "kz" THEN kz_gather_loop(t, 0, board)
    ELSE az_gather_loop(mode, t, 0, board, FPU_DRAW)

(***************************************************************************)
(* zero_step_apply.  A response is [node, board, eval] with                *)
(* eval = [values, policy]; the result is [ok, tree].                      *)
(***************************************************************************)
ZeroResponse(request, eval) == [node |-> request.node, board |-> request.board, eval |-> eval]

\* `for (c, &p) in zip_eq_exact(children, policy) { tree[c].net_policy = p }`,
\* from the i-th pair on
RECURSIVE set_child_policies_from(_, _, _, _)
set_child_policies_from(t, children, policy, i) ==
    IF i > children.length THEN t
    ELSE set_child_policies_from([t EXCEPT ![IdxRange_iter(children)[i] + 1].net_policy = policy[i]],
                                 children, policy, i + 1)

\* mutant: the first child keeps the prior it was created with
set_child_policies_skip_first(t, children, policy) ==
    set_child_policies_from(t, children, policy, 2)

set_child_policies(t, children, policy) == set_child_policies_from(t, children, policy, 1)

\* mutant: net_values already present are overwritten
zero_step_apply_overwrites(flavor, t, resp) ==
    LET curr_node == resp.node
        curr_player == next_player(resp.board)
        values == IF flavor = "kz" THEN un_pov(resp.eval.values, curr_player) ELSE resp.eval.values
        t1 == [t EXCEPT ![curr_node + 1].net_values = Some(values)]
        p == tree_propagate_values(flavor, t1, curr_node, values)
        children == NodeAt(p.tree, curr_node).children
    IN  IF ~p.ok \/ children = None THEN [ok |-> FALSE, tree |-> p.tree]
        ELSE IF children[1].length # Len(resp.eval.policy) THEN [ok |-> FALSE, tree |-> p.tree]
        ELSE [ok |-> TRUE, tree |-> set_child_policies(p.tree, children[1], resp.eval.policy)]

zero_step_apply(flavor, t, resp) ==
    LET curr_node == resp.node
        curr_player == next_player(resp.board)
        values == IF flavor = "kz" THEN un_pov(resp.eval.values, curr_player) ELSE resp.eval.values
    IN  IF NodeAt(t, curr_node).net_values # None THEN [ok |-> FALSE, tree |-> t]
        ELSE
            LET t1 == [t EXCEPT ![curr_node + 1].net_values = Some(values)]
                p == tree_propagate_values(flavor, t1, curr_node, values)
                children == NodeAt(p.tree, curr_node).children
            IN  IF ~p.ok \/ children = None THEN [ok |-> FALSE, tree |-> p.tree]
                ELSE IF children[1].length # Len(resp.eval.policy) THEN [ok |-> FALSE, tree |-> p.tree]
                ELSE [ok |-> TRUE, tree |-> set_child_policies(p.tree, children[1], resp.eval.policy)]

(***************************************************************************)
(* The network: an evaluation is any value of NetValues with any           *)
(* normalized policy over the legal moves of the board; the policy is a    *)
(* softmax, so every entry is positive.                                    *)
(***************************************************************************)
NetValues == {[wdl |-> <<1, 0, 0>>, moves_left |-> 1], [wdl |-> <<0, 0, 1>>, moves_left |-> 0]}

RECURSIVE SeqSum(_)
SeqSum(s) == IF s = <<>> THEN 0 ELSE s[1] + SeqSum(Tail(s))

Policies(n) == {p \in [1..n -> 1..PolicyDen] : SeqSum(p) = PolicyDen}

Evaluations(board) ==
    {[values |-> v, policy |-> p] : v \in NetValues, p \in Policies(Len(available_moves(board)))}

\* a policy for n legal moves whose sum is off by one unit, if there is one
UnnormalizedPolicies(n) ==
    LET off == {p \in [1..n -> 1..PolicyDen] : SeqSum(p) \in {PolicyDen - 1, PolicyDen + 1}}
    IN  IF off = {} THEN {} ELSE {CHOOSE p \in off : TRUE}

RemoveAt(s, i) == [j \in 1..(Len(s) - 1) |-> IF j < i THEN s[j] ELSE s[j + 1]]

(***************************************************************************)
(* The step engine called freely: any sequence of gather and apply calls   *)
(* in which every yielded request is applied at most once.                 *)
(***************************************************************************)
Flavor == IF prog = "kz_step" THEN "kz" ELSE "az"

NoHist == [base |-> <<>>, applied |-> <<>>]

driver_unchanged == UNCHANGED <<prog, fpu_mode, root_board, expected_nodes, response, result, pc,
                                target, batch_size, stop, kept, untracked, sttt, sym_test, other_vars>>

protocol_unchanged == UNCHANGED rejected

\* a response with a policy that is not normalised has gone through; the run
\* is followed no further
unchecked == last.op = "apply_unnormalized"

StepGather ==
    /\ prog \in {"kz_step", "az_step"}
    /\ ~panic /\ ~rejected /\ ~unchecked
    /\ total_visits(NodeAt(tree, 0)) < MaxGathers
    /\ \E r \in zero_step_gather(Flavor, fpu_mode, tree, root_board) :
        /\ tree' = r.tree
        /\ requests' = requests \o r.request
        /\ panic' = ~r.ok
        /\ last' = [op |-> IF r.request = None THEN "gather_terminal" ELSE "gather_expand",
                    node |-> r.node]
        /\ hist' = [base |-> r.tree, applied |-> <<>>]
    /\ driver_unchanged
    /\ protocol_unchanged

StepApply ==
    /\ prog \in {"kz_step", "az_step"}
    /\ ~panic /\ ~rejected /\ ~unchecked
    /\ \E i \in 1..Len(requests) : \E eval \in Evaluations(requests[i].board) :
        LET resp == ZeroResponse(requests[i], eval)
            r == zero_step_apply(Flavor, tree, resp)
        IN  /\ tree' = r.tree
            /\ requests' = RemoveAt(requests, i)
            /\ panic' = ~r.ok
            /\ last' = [op |-> "apply", node |-> resp.node]
            /\ hist' = [hist EXCEPT !.applied = Append(@, resp)]
    /\ driver_unchanged
    /\ protocol_unchanged

(***************************************************************************)
(* Calls of zero_step_apply against the protocol.  The call either is      *)
(* refused by an assertion of zero_step_apply (rejected, the search has    *)
(* ended) or goes through.                                                 *)
(***************************************************************************)
\* the board of a node: the root board with the moves down to the node played
RECURSIVE board_of(_, _, _)
board_of(t, board, n) ==
    IF NodeAt(t, n).parent = None THEN board
    ELSE play(board_of(t, board, NodeAt(t, n).parent[1]), NodeAt(t, n).last_move[1])

\* the response applied last is handed in a second time, with any evaluation
StepApplyDuplicate ==
    /\ prog \in {"kz_step", "az_step"}
    /\ ~panic /\ ~rejected /\ ~unchecked
    /\ last.op = "apply"
    /\ LET board == board_of(tree, root_board, last.node)
       IN  \E eval \in Evaluations(board) :
               LET r == zero_step_apply(Flavor, tree, ZeroResponse(ZeroRequest(last.node, board), eval))
               IN  /\ tree' = r.tree
                   /\ rejected' = ~r.ok
    /\ last' = [op |-> "apply_duplicate", node |-> last.node]
    /\ UNCHANGED <<requests, hist, panic>>
    /\ driver_unchanged

\* a policy that is one entry short and one that is one entry long for n
\* legal moves
WrongPolicies(n) ==
    {CHOOSE p \in Policies(m) : TRUE : m \in {k \in {n - 1, n + 1} : k >= 0 /\ Policies(k) # {}}}

\* a pending request is answered with a policy of the wrong length
StepApplyWrongLength ==
    /\ prog \in {"kz_step", "az_step"}
    /\ ~panic /\ ~rejected /\ ~unchecked
    /\ \E i \in 1..Len(requests) : \E v \in {CHOOSE w \in NetValues : TRUE} :
       \E p \in WrongPolicies(Len(available_moves(requests[i].board))) :
        LET resp == ZeroResponse(requests[i], [values |-> v, policy |-> p])
            r == zero_step_apply(Flavor, tree, resp)
        IN  /\ tree' = r.tree
            /\ requests' = RemoveAt(requests, i)
            /\ rejected' = ~r.ok
            /\ last' = [op |-> "apply_wrong_length", node |-> resp.node]
            /\ hist' = [hist EXCEPT !.applied = Append(@, resp)]
    /\ UNCHANGED panic
    /\ driver_unchanged

\* a pending request is answered with a policy that does not sum to 1
StepApplyUnnormalized ==
    /\ prog \in {"kz_step", "az_step"}
    /\ ~panic /\ ~rejected /\ ~unchecked
    /\ \E i \in 1..Len(requests) : \E v \in {CHOOSE w \in NetValues : TRUE} :
       \E p \in UnnormalizedPolicies(Len(available_moves(requests[i].board))) :
        LET resp == ZeroResponse(requests[i], [values |-> v, policy |-> p])
            r == zero_step_apply(Flavor, tree, resp)
        IN  /\ tree' = r.tree
            /\ requests' = RemoveAt(requests, i)
            /\ rejected' = ~r.ok
            /\ last' = [op |-> "apply_unnormalized", node |-> resp.node]
            /\ hist' = [hist EXCEPT !.applied = Append(@, resp)]
    /\ UNCHANGED panic
    /\ driver_unchanged

(***************************************************************************)
(* The path and the board of a node, and exhausted trees.  zs tells the     *)
(* node type: Node of non_solve_zero.rs keeps its parent as a plain index. *)
(***************************************************************************)
Nodes(t) == 0..(Len(t) - 1)

\* the parent of node n as an Option, for both node types
ParentOf(t, n, zs) ==
    IF zs THEN (IF n = 0 THEN None ELSE Some(NodeAt(t, n).parent)) ELSE NodeAt(t, n).parent

\* the nodes from n up to the root, n first
RECURSIVE Chain(_, _, _)
Chain(t, n, zs) ==
    IF ParentOf(t, n, zs) = None THEN <<n>> ELSE <<n>> \o Chain(t, ParentOf(t, n, zs)[1], zs)

ChainSet(t, n, zs) == {Chain(t, n, zs)[k] : k \in 1..Len(Chain(t, n, zs))}

\* the board reached at node n
RECURSIVE BoardAt(_, _, _, _)
BoardAt(t, board, n, zs) ==
    IF ParentOf(t, n, zs) = None THEN board
    ELSE play(BoardAt(t, board, ParentOf(t, n, zs)[1], zs), NodeAt(t, n).last_move[1])

\* every node with a board that is not done has been expanded
TreeExhausted(t, board, zs) ==
    \A n \in Nodes(t) : outcome(BoardAt(t, board, n, zs)) = None => NodeAt(t, n).children # None

(***************************************************************************)
(* ZeroSettings::expand_tree (wrapper.rs), run by ZeroBot::build_tree with *)
(* stop = |tree| tree.root_visits() >= visits, on the alpha-zero step      *)
(* engine.  An external stop condition may become true as well.            *)
(***************************************************************************)
root_visits(t) == NodeAt(t, 0).complete_visits

\* the stop closure polled at the top of the outer loop
stop_closure(t, visits, external) == external \/ root_visits(t) >= visits

\* `while requests.len() < self.batch_size`
collect_more(reqs, size) == Len(reqs) < size

step_unchanged == UNCHANGED <<prog, fpu_mode, root_board, expected_nodes, response, result,
                              target, batch_size, stop, kept, hist, rejected, sttt, sym_test, other_vars>>

\* top of 'outer: poll stop, start a new batch
ExpandTreeLoop ==
    /\ prog = "expand_tree" /\ pc = "loop" /\ ~panic
    /\ IF stop_closure(tree, target, stop)
       THEN pc' = "returned" /\ requests' = requests
       ELSE pc' = "collect" /\ requests' = <<>>
    /\ last' = [op |-> "loop", node |-> 0]
    /\ UNCHANGED <<tree, untracked, panic>>
    /\ step_unchanged

\* One iteration of the inner while loop.  The visit counters are tracked up
\* to MaxVisits.  Beyond, the loop is followed in an exhausted tree only: there
\* every gather ends on a done board, yields no request and changes nothing
\* but the counters, and of these iterations the parity is kept.
ExpandTreeGather ==
    /\ prog = "expand_tree" /\ pc = "collect" /\ ~panic
    /\ collect_more(requests, batch_size)
    /\ IF total_visits(NodeAt(tree, 0)) < MaxVisits
       THEN /\ \E r \in zero_step_gather("az", fpu_mode, tree, root_board) :
                /\ tree' = r.tree
                /\ requests' = requests \o r.request
                /\ panic' = ~r.ok
                /\ last' = [op |-> IF r.request = None THEN "gather_terminal"
                                   ELSE "gather_expand",
                            node |-> r.node]
            /\ untracked' = untracked
       ELSE /\ TreeExhausted(tree, root_board, FALSE)
            /\ untracked' = 1 - untracked
            /\ last' = [op |-> "gather_untracked", node |-> 0]
            /\ UNCHANGED <<tree, requests, panic>>
    /\ pc' = pc
    /\ step_unchanged

\* the batch is full: network.evaluate_batch(&boards)
ExpandTreeEvaluate ==
    /\ prog = "expand_tree" /\ pc = "collect" /\ ~panic
    /\ ~collect_more(requests, batch_size)
    /\ pc' = "apply"
    /\ last' = [op |-> "evaluate", node |-> 0]
    /\ UNCHANGED <<tree, requests, untracked, panic>>
    /\ step_unchanged

\* one iteration of `for (req, eval) in zip_eq_exact(requests, evals)`
ExpandTreeApply ==
    /\ prog = "expand_tree" /\ pc = "apply" /\ ~panic
    /\ requests # <<>>
    /\ \E eval \in Evaluations(requests[1].board) :
        LET resp == ZeroResponse(requests[1], eval)
            r == zero_step_apply("az", tree, resp)
        IN  /\ tree' = r.tree
            /\ panic' = ~r.ok
            /\ last' = [op |-> "apply", node |-> resp.node]
    /\ requests' = Tail(requests)
    /\ pc' = IF Tail(requests) = <<>> THEN "loop" ELSE "apply"
    /\ untracked' = untracked
    /\ step_unchanged

(***************************************************************************)
(* non_solve_zero.rs: Node, Tree, ZeroState, zero_build_tree.              *)
(***************************************************************************)
VIRTUAL_WDL == <<0, 0, 1>>

ZNode_new(parent, last_move, p) ==
    [parent |-> parent, last_move |-> last_move, children |-> None,
     net_wdl |-> None, net_policy |-> p, visits |-> 0, total_wdl |-> WDL_default]

\* Tree::new(root_board); asserts that the root board is not done
ZTree_new == <<ZNode_new(0, None, NAN_POLICY)>>

\* Node::uct: q is wdl().value(), 0 for a node without visits
Node_uct(node) ==
    IF node.visits = 0 THEN Score(0, 1, node.net_policy, node.visits)
    ELSE Score(WDL_value(node.total_wdl), node.visits, node.net_policy, node.visits)

\* mutant: the flip at the head of the loop is missing
RECURSIVE propagate_wdl_no_flip(_, _, _, _)
propagate_wdl_no_flip(t, curr_index, wdl, count_visit) ==
    LET t1 == [t EXCEPT ![curr_index + 1] =
                  [@ EXCEPT !.visits = IF count_visit THEN @ + 1 ELSE @,
                            !.total_wdl = WDL_add(@, wdl)]]
    IN  IF curr_index = 0 THEN t1
        ELSE propagate_wdl_no_flip(t1, NodeAt(t, curr_index).parent, wdl, count_visit)

\* Tree::propagate_wdl
RECURSIVE propagate_wdl(_, _, _, _)
propagate_wdl(t, curr_index, wdl0, count_visit) ==
    LET wdl == WDL_flip(wdl0)
        t1 == [t EXCEPT ![curr_index + 1] =
                  [@ EXCEPT !.visits = IF count_visit THEN @ + 1 ELSE @,
                            !.total_wdl = WDL_add(@, wdl)]]
    IN  IF curr_index = 0 THEN t1
        ELSE propagate_wdl(t1, NodeAt(t, curr_index).parent, wdl, count_visit)

SubRequest(curr_board, curr_node, sym) == [curr_board |-> curr_board, curr_node |-> curr_node, sym |-> sym]

\* the symmetries of the game: the take-away game has the identity only
Symmetries == {"identity"}

map(b, sym) == b

map_move(sym, mv) == mv

\* ZeroState::gen_symmetry with settings.random_symmetries = false
gen_symmetry == "identity"

\* one walk down the tree of run_until_result_from_root: the set holding
\* its result [ok, tree, request, node]
RECURSIVE zs_walk(_, _, _)
zs_walk(t, curr_node, curr_board) ==
    IF outcome(curr_board) # None THEN
        LET wdl == to_wdl(pov(outcome(curr_board)[1], next_player(curr_board)))
        IN  {[ok |-> TRUE, tree |-> propagate_wdl(t, curr_node, wdl, TRUE), request |-> None,
              node |-> curr_node]}
    ELSE IF NodeAt(t, curr_node).children = None THEN
        LET start == len(t)
            moves == available_moves(curr_board)
            t1 == t \o [i \in 1..Len(moves) |-> ZNode_new(curr_node, Some(moves[i]), PolicyDen)]
            end == len(t1)
            range == IdxRange_new(start, end)
        IN  IF range = None THEN {[ok |-> FALSE, tree |-> t1, request |-> None, node |-> curr_node]}
            ELSE
                LET t2 == [t1 EXCEPT ![curr_node + 1] = [@ EXCEPT !.children = range, !.net_wdl = None]]
                IN  {[ok |-> TRUE, tree |-> propagate_wdl(t2, curr_node, VIRTUAL_WDL, TRUE),
                      request |-> Some(SubRequest(curr_board, curr_node, gen_symmetry)),
                      node |-> curr_node]}
    ELSE
        LET children == NodeAt(t, curr_node).children[1]
            parent_visits == NodeAt(t, curr_node).visits
            selected == max_by_key(IdxRange_set(children),
                                   [c \in IdxRange_set(children) |-> Node_uct(NodeAt(t, c))],
                                   parent_visits)
        IN  UNION {zs_walk(t, a.node, a.board) :
                      a \in {[node |-> selected,
                              board |-> play(curr_board, NodeAt(t, selected).last_move[1])]}}

\* position of x in sequence s (0-based), Option
position(s, x) ==
    IF \E i \in 1..Len(s) : s[i] = x
    THEN Some(SetMin({i \in 1..Len(s) : s[i] = x}) - 1)
    ELSE None

\* mutant: the sum is not looked at
policy_sum_unchecked(sym_policy) == TRUE

\* the tolerance assertion on the policy sum: |1 - sum| < 0.001
policy_sum_ok(sym_policy) ==
    LET d == PolicyDen - SeqSum(sym_policy)
    IN  1000 * (IF d < 0 THEN 0 - d ELSE d) < PolicyDen

\* the body of for_each_original_move_and_policy for the legal moves of the
\* board, those of the mapped board and the images of the former: Option of
\* the sequence of policy entries handed to f, one per legal move of the
\* board, in move order
for_each_policy(moves, sym_moves, sym_mv, sym_policy) ==
    IF Len(moves) # Len(sym_policy) \/ ~policy_sum_ok(sym_policy) THEN None
    ELSE IF \E i \in 1..Len(moves) : position(sym_moves, sym_mv[i]) = None THEN None
    ELSE Some([i \in 1..Len(moves) |-> sym_policy[position(sym_moves, sym_mv[i])[1] + 1]])

\* for_each_original_move_and_policy on a board of the take-away game
for_each_original_move_and_policy(board, sym, sym_policy) ==
    LET moves == available_moves(board)
    IN  for_each_policy(moves, available_moves(map(board, sym)),
                        [i \in 1..Len(moves) |-> map_move(sym, moves[i])], sym_policy)

\* mutant: the evaluation is propagated as it is, the virtual loss stays
apply_sub_keeps_virtual(t, sub, expected_node) ==
    LET curr_node == sub.request.curr_node
        wdl == sub.evaluation.wdl
        ps == for_each_original_move_and_policy(sub.request.curr_board, sub.request.sym,
                                                sub.evaluation.policy)
        t1 == [t EXCEPT ![curr_node + 1].net_wdl = Some(wdl)]
    IN  IF expected_node # curr_node \/ NodeAt(t, curr_node).net_wdl # None
        THEN [ok |-> FALSE, tree |-> t]
        ELSE IF ps = None THEN [ok |-> FALSE, tree |-> t1]
        ELSE
            LET children == NodeAt(t1, curr_node).children[1]
                t2 == set_child_policies(t1, children, ps[1])
            IN  [ok |-> TRUE, tree |-> propagate_wdl(t2, curr_node, wdl, FALSE)]

\* one iteration of the loop of ZeroState::apply_eval: [ok, tree]
apply_sub(t, sub, expected_node) ==
    LET curr_node == sub.request.curr_node
        wdl == sub.evaluation.wdl
        ps == for_each_original_move_and_policy(sub.request.curr_board, sub.request.sym,
                                                sub.evaluation.policy)
        t1 == [t EXCEPT ![curr_node + 1].net_wdl = Some(wdl)]
    IN  IF expected_node # curr_node \/ NodeAt(t, curr_node).net_wdl # None
        THEN [ok |-> FALSE, tree |-> t]
        ELSE IF ps = None THEN [ok |-> FALSE, tree |-> t1]
        ELSE
            LET children == NodeAt(t1, curr_node).children[1]
                t2 == set_child_policies(t1, children, ps[1])
            IN  [ok |-> TRUE, tree |-> propagate_wdl(t2, curr_node, WDL_sub(wdl, VIRTUAL_WDL), FALSE)]

\* mutant: the responses and the expected nodes are zipped with zip, which
\* stops at the end of the shorter
RECURSIVE apply_eval_zip(_, _, _)
apply_eval_zip(t, subs, expected) ==
    IF subs = <<>> \/ expected = <<>>
    THEN [ok |-> TRUE, tree |-> t]
    ELSE LET r == apply_sub(t, subs[1], expected[1])
         IN  IF ~r.ok THEN r ELSE apply_eval_zip(r.tree, Tail(subs), Tail(expected))

\* ZeroState::apply_eval: zip_eq(response.subs, expected_nodes.drain(..))
RECURSIVE apply_eval(_, _, _)
apply_eval(t, subs, expected) ==
    IF subs = <<>> \/ expected = <<>>
    THEN [ok |-> subs = <<>> /\ expected = <<>>, tree |-> t]
    ELSE LET r == apply_sub(t, subs[1], expected[1])
         IN  IF ~r.ok THEN r ELSE apply_eval(r.tree, Tail(subs), Tail(expected))

NetWdls == {<<1, 0, 0>>, <<0, 0, 1>>}

ZeroEvaluations(board) ==
    {[wdl |-> w, policy |-> p] : w \in NetWdls, p \in Policies(Len(available_moves(board)))}

\* mutant: the loop runs once more
loop_cond_inclusive(visits, target_iterations) == visits <= target_iterations

\* `while self.tree[0].visits < self.target_iterations`
loop_cond(visits, target_iterations) == visits < target_iterations

zs_unchanged == UNCHANGED <<prog, fpu_mode, root_board, target, batch_size, stop, kept, hist,
                            untracked, rejected, sttt, sym_test, other_vars>>

\* zero_build_tree: top of the loop, then run_until_result up to the walk loop
ZeroBuildLoop ==
    /\ prog = "zero_state" /\ pc = "loop" /\ ~panic
    /\ IF stop
       THEN /\ pc' = "returned"
            /\ UNCHANGED <<tree, requests, expected_nodes, response, panic>>
       ELSE IF response = None
       THEN /\ panic' = (expected_nodes # <<>>)
            /\ pc' = "run"
            /\ requests' = <<>>
            /\ UNCHANGED <<tree, expected_nodes, response>>
       ELSE LET r == apply_eval(tree, response[1], expected_nodes)
            IN  /\ panic' = (expected_nodes = <<>> \/ ~r.ok)
                /\ tree' = r.tree
                /\ expected_nodes' = <<>>
                /\ response' = None
                /\ requests' = <<>>
                /\ pc' = "run"
    /\ result' = "None"
    /\ last' = [op |-> "loop", node |-> 0]
    /\ zs_unchanged

\* how run_until_result_from_root returns once the walk loop is left
run_result(sub_requests) == IF sub_requests = <<>> THEN "Done" ELSE "Request"

\* one evaluation of the loop head and body of run_until_result_from_root
ZeroRun ==
    /\ prog = "zero_state" /\ pc = "run" /\ ~panic
    /\ IF ~loop_cond(NodeAt(tree, 0).visits, target)
       THEN /\ result' = run_result(requests)
            /\ pc' = "result"
            /\ last' = [op |-> "run_exit", node |-> 0]
            /\ UNCHANGED <<tree, requests, expected_nodes, panic>>
       ELSE IF stop
       THEN /\ result' = "Done"
            /\ pc' = "result"
            /\ last' = [op |-> "run_stopped", node |-> 0]
            /\ UNCHANGED <<tree, requests, expected_nodes, panic>>
       ELSE IF Len(requests) = batch_size
       THEN /\ result' = run_result(requests)
            /\ pc' = "result"
            /\ last' = [op |-> "run_exit", node |-> 0]
            /\ UNCHANGED <<tree, requests, expected_nodes, panic>>
       ELSE \E r \in zs_walk(tree, 0, root_board) :
                /\ tree' = r.tree
                /\ requests' = requests \o r.request
                /\ expected_nodes' = IF r.request = None THEN expected_nodes
                                     ELSE Append(expected_nodes, r.node)
                /\ panic' = ~r.ok
                /\ last' = [op |-> IF r.request = None THEN "gather_terminal" ELSE "gather_expand",
                            node |-> r.node]
                /\ UNCHANGED <<result, pc>>
    /\ UNCHANGED response
    /\ zs_unchanged

\* zero_build_tree after run_until_result: poll stop, match on the result
ZeroBuildResult ==
    /\ prog = "zero_state" /\ pc = "result" /\ ~panic
    /\ pc' = IF stop \/ result = "Done" THEN "returned" ELSE "evaluate"
    /\ last' = [op |-> "result", node |-> 0]
    /\ UNCHANGED <<tree, requests, expected_nodes, response, result, panic>>
    /\ zs_unchanged

\* network.evaluate_batch, poll stop, build the response
ZeroBuildEvaluate ==
    /\ prog = "zero_state" /\ pc = "evaluate" /\ ~panic
    /\ IF stop
       THEN pc' = "returned" /\ response' = response
       ELSE /\ pc' = "loop"
            /\ \E evals \in [1..Len(requests) -> UNION {ZeroEvaluations(requests[i].curr_board) :
                                                          i \in 1..Len(requests)}] :
                /\ \A i \in 1..Len(requests) : evals[i] \in ZeroEvaluations(requests[i].curr_board)
                /\ response' = Some([i \in 1..Len(requests) |->
                                        [request |-> requests[i], evaluation |-> evals[i]]])
    /\ last' = [op |-> "evaluate", node |-> 0]
    /\ UNCHANGED <<tree, requests, expected_nodes, result, panic>>
    /\ zs_unchanged

\* network.evaluate_batch returns a batch in which one policy does not sum
\* to 1 (a bug in the network or the mapper)
ZeroBuildEvaluateUnnormalized ==
    /\ prog = "zero_state" /\ pc = "evaluate" /\ ~panic /\ ~stop
    /\ pc' = "loop"
    /\ \E bad \in 1..Len(requests) :
       \E p \in UnnormalizedPolicies(Len(available_moves(requests[bad].curr_board))) :
        response' = Some([i \in 1..Len(requests) |->
                             [request |-> requests[i],
                              evaluation |->
                                  IF i = bad THEN [wdl |-> CHOOSE w \in NetWdls : TRUE, policy |-> p]
                                  ELSE CHOOSE e \in ZeroEvaluations(requests[i].curr_board) : TRUE]])
    /\ last' = [op |-> "evaluate", node |-> 0]
    /\ UNCHANGED <<tree, requests, expected_nodes, result, panic>>
    /\ zs_unchanged

\* a sequence in reverse order
Reverse(seq) == [i \in 1..Len(seq) |-> seq[Len(seq) + 1 - i]]

\* a caller of run_until_result other than zero_build_tree hands in None
\* although it holds the response to the requests outstanding
ZeroCallerDrops ==
    /\ prog = "zero_state" /\ pc = "loop" /\ ~panic /\ ~stop
    /\ response # None
    /\ response' = None
    /\ last' = [op |-> "caller_drops", node |-> 0]
    /\ UNCHANGED <<tree, requests, expected_nodes, result, pc, panic>>
    /\ zs_unchanged

\* the caller hands in the sub-responses in another order
ZeroCallerReorders ==
    /\ prog = "zero_state" /\ pc = "loop" /\ ~panic /\ ~stop
    /\ response # None /\ Len(response[1]) >= 2
    /\ response' = Some(Reverse(response[1]))
    /\ last' = [op |-> "caller_reorders", node |-> 0]
    /\ UNCHANGED <<tree, requests, expected_nodes, result, pc, panic>>
    /\ zs_unchanged

\* the caller hands in a response that lacks the last sub-response
ZeroCallerTruncates ==
    /\ prog = "zero_state" /\ pc = "loop" /\ ~panic /\ ~stop
    /\ response # None /\ response[1] # <<>>
    /\ response' = Some(SubSeq(response[1], 1, Len(response[1]) - 1))
    /\ last' = [op |-> "caller_truncates", node |-> 0]
    /\ UNCHANGED <<tree, requests, expected_nodes, result, pc, panic>>
    /\ zs_unchanged

\* the caller hands in a response although no request is outstanding
ZeroCallerInvents ==
    /\ prog = "zero_state" /\ pc = "loop" /\ ~panic /\ ~stop
    /\ response = None /\ expected_nodes = <<>>
    /\ \E evaluation \in ZeroEvaluations(root_board) :
         response' = Some(<<[request |-> SubRequest(root_board, 0, "identity"),
                             evaluation |-> evaluation]>>)
    /\ last' = [op |-> "caller_invents", node |-> 0]
    /\ UNCHANGED <<tree, requests, expected_nodes, result, pc, panic>>
    /\ zs_unchanged

(***************************************************************************)
(* Tree::keep_move: Option of the KeepResult, None when an assertion       *)
(* fails.  The nodes are copied breadth-first as the source does.          *)
(***************************************************************************)
\* mutant: the children are copied in reverse order
RECURSIVE keep_loop_reversed(_, _, _)
keep_loop_reversed(old_nodes, new_nodes, i) ==
    IF ~(i < Len(new_nodes)) THEN new_nodes
    ELSE IF NodeAt(new_nodes, i).children = None THEN keep_loop_reversed(old_nodes, new_nodes, i + 1)
    ELSE
        LET old_children == NodeAt(new_nodes, i).children[1]
            new_start == Len(new_nodes)
            extended == new_nodes \o [k \in 1..old_children.length |->
                                         NodeAt(old_nodes, old_children.start + old_children.length - k)]
            new_end == Len(extended)
        IN  keep_loop_reversed(old_nodes,
                      [extended EXCEPT ![i + 1].children = IdxRange_new(new_start, new_end)],
                      i + 1)

RECURSIVE keep_loop(_, _, _)
keep_loop(old_nodes, new_nodes, i) ==
    IF ~(i < Len(new_nodes)) THEN new_nodes
    ELSE IF NodeAt(new_nodes, i).children = None THEN keep_loop(old_nodes, new_nodes, i + 1)
    ELSE
        LET old_children == NodeAt(new_nodes, i).children[1]
            new_start == Len(new_nodes)
            extended == new_nodes \o [k \in 1..old_children.length |->
                                         NodeAt(old_nodes, old_children.start + k - 1)]
            new_end == Len(extended)
        IN  keep_loop(old_nodes,
                      [extended EXCEPT ![i + 1].children = IdxRange_new(new_start, new_end)],
                      i + 1)

\* mutant: the outcome of the new root board is not looked at
keep_move_ignores_outcome(board, nodes, mv) ==
    LET new_root_board == play(board, mv) IN
    IF ~(Len(nodes) > 1) THEN None
    ELSE
        LET cands == {c \in IdxRange_set(NodeAt(nodes, 0).children[1]) :
                          NodeAt(nodes, c).last_move[1] = mv}
        IN  IF cands = {} THEN None
            ELSE Some([kind |-> "Tree", root_board |-> new_root_board,
                       nodes |-> keep_loop(nodes, <<NodeAt(nodes, SetMin(cands))>>, 0)])

keep_move(board, nodes, mv) ==
    LET new_root_board == play(board, mv) IN
    IF ~(Len(nodes) > 1) THEN None
    ELSE IF outcome(new_root_board) # None
    THEN Some([kind |-> "Done", outcome |-> outcome(new_root_board)[1]])
    ELSE
        LET cands == {c \in IdxRange_set(NodeAt(nodes, 0).children[1]) :
                          NodeAt(nodes, c).last_move[1] = mv}
        IN  IF cands = {} THEN None
            ELSE Some([kind |-> "Tree", root_board |-> new_root_board,
                       nodes |-> keep_loop(nodes, <<NodeAt(nodes, SetMin(cands))>>, 0)])

\* the caller takes the returned tree and keeps the subtree of a legal move
KeepMove ==
    /\ prog = "zero_state" /\ pc = "returned" /\ ~panic
    /\ \E i \in 1..Len(available_moves(root_board)) :
        LET mv == available_moves(root_board)[i]
            r == keep_move(root_board, tree, mv)
        IN  /\ kept' = r
            /\ panic' = (r = None)
            /\ last' = [op |-> "keep_move", node |-> 0, mv |-> mv]
    /\ pc' = "kept"
    /\ UNCHANGED <<prog, fpu_mode, root_board, tree, requests, expected_nodes, response, result,
                   target, batch_size, stop, hist, untracked, rejected, sttt, sym_test, other_vars>>

\* the external stop condition (time ran out) becomes true
StopFires ==
    /\ prog \in {"expand_tree", "zero_state"}
    /\ pc \notin {"returned", "kept"}
    /\ ~panic /\ ~stop
    /\ stop' = TRUE
    /\ last' = [op |-> "stop", node |-> 0]
    /\ UNCHANGED <<prog, fpu_mode, root_board, tree, requests, expected_nodes, response, result, pc,
                   target, batch_size, kept, hist, untracked, rejected, sttt, sym_test, other_vars,
                   panic>>

(***************************************************************************)
(* src/board.rs: the ultimate tic-tac-toe board and its symmetries.  A u32 *)
(* bit mask is the set of the positions of its one bits; in a grid the     *)
(* bits 0..8 belong to X and 9..17 to O.                                   *)
(***************************************************************************)
has_bit(x, i) == i \in x

count_ones(x) == Cardinality(x)

\* the value of a mask
RECURSIVE mask_value(_)
mask_value(x) == IF x = {} THEN 0 ELSE LET i == CHOOSE j \in x : TRUE IN 2 ^ i + mask_value(x \ {i})

\* x >> p
shr(x, p) == {i - p : i \in {j \in x : j >= p}}

FULL_MASK == 0..8

\* (grid | grid >> 9) & FULL_MASK
compact_grid(grid) == (grid \cup shr(grid, 9)) \cap FULL_MASK

\* WIN_GRIDS: 16 words of 32 bits
WIN_GRIDS ==
    << {7, 15, 23, 31},
       {7, 15, 23, 24, 25, 26, 27, 28, 29, 30, 31},
       {7, 9, 11, 13, 15, 20, 21, 22, 23, 25, 27, 28, 29, 30, 31},
       {7, 9, 11, 13, 15, 20, 21, 22, 23, 24, 25, 26, 27, 28, 29, 30, 31},
       {7, 15, 18, 19, 22, 23, 26, 27, 30, 31},
       {7, 15, 18, 19, 22, 23, 24, 25, 26, 27, 28, 29, 30, 31},
       {7, 9, 11, 13, 15, 18, 19, 20, 21, 22, 23, 25, 26, 27, 28, 29, 30, 31},
       {7, 9, 11, 13, 15, 18, 19, 20, 21, 22, 23, 24, 25, 26, 27, 28, 29, 30, 31},
       {7, 15, 17, 19, 21, 23, 25, 27, 29, 31},
       {4, 5, 6, 7, 12, 13, 14, 15, 17, 19, 20, 21, 22, 23, 24, 25, 26, 27, 28, 29, 30, 31},
       {7, 9, 11, 13, 15, 17, 19, 20, 21, 22, 23, 25, 27, 28, 29, 30, 31},
       {4, 5, 6, 7, 9, 11, 12, 13, 14, 15, 17, 19, 20, 21, 22, 23, 24, 25, 26, 27, 28, 29, 30, 31},
       {7, 15, 17, 18, 19, 21, 22, 23, 25, 26, 27, 29, 30, 31},
       {4, 5, 6, 7, 12, 13, 14, 15, 17, 18, 19, 20, 21, 22, 23, 24, 25, 26, 27, 28, 29, 30, 31},
       {0, 1, 2, 3, 4, 5, 6, 7, 8, 9, 10, 11, 12, 13, 14, 15, 16, 17, 18, 19, 20, 21, 22, 23, 24, 25, 26, 27, 28, 29, 30, 31},
       {0, 1, 2, 3, 4, 5, 6, 7, 8, 9, 10, 11, 12, 13, 14, 15, 16, 17, 18, 19, 20, 21, 22, 23, 24, 25, 26, 27, 28, 29, 30, 31} >>

is_win_grid(grid) ==
    LET v == mask_value(grid)
    IN  has_bit(WIN_GRIDS[(v \div 32) + 1], v % 32)

Player_other(p) == IF p = "X" THEN "O" ELSE IF p = "O" THEN "X" ELSE "Neutral"

\* Player::index; Neutral panics and is never asked for
Player_index(p) == IF p = "X" THEN 0 ELSE 1

Coord_from_oo(om, os) == 9 * om + os

Coord_om(c) == c \div 9

Coord_os(c) == c % 9

Symmetry_default == [transpose |-> FALSE, flip_x |-> FALSE, flip_y |-> FALSE]

Symmetry_all == [transpose : BOOLEAN, flip_x : BOOLEAN, flip_y : BOOLEAN]

Symmetry_inverse(s) ==
    [transpose |-> s.transpose,
     flip_x |-> IF s.transpose THEN s.flip_y ELSE s.flip_x,
     flip_y |-> IF s.transpose THEN s.flip_x ELSE s.flip_y]

Symmetry_map_oo(s, oo) ==
    LET x0 == oo % 3
        y0 == oo \div 3
        x1 == IF s.transpose THEN y0 ELSE x0
        y1 == IF s.transpose THEN x0 ELSE y0
        x2 == IF s.flip_x THEN 2 - x1 ELSE x1
        y2 == IF s.flip_y THEN 2 - y1 ELSE y1
    IN  x2 + y2 * 3

\* mutant: the coordinate is mapped without the transposition
Symmetry_map_coord_no_transpose(s, coord) ==
    LET f == [s EXCEPT !.transpose = FALSE]
    IN  Coord_from_oo(Symmetry_map_oo(f, Coord_om(coord)), Symmetry_map_oo(f, Coord_os(coord)))

Symmetry_map_coord(s, coord) ==
    Coord_from_oo(Symmetry_map_oo(s, Coord_om(coord)), Symmetry_map_oo(s, Coord_os(coord)))

\* map_grid: for oo_input in 0..9 the bits oo_input and oo_input + 9 move to
\* map_oo(oo_input) and map_oo(oo_input) + 9; other bits are dropped
Symmetry_map_grid(s, grid) ==
    {Symmetry_map_oo(s, i) : i \in {j \in grid : j < 9}}
        \cup {Symmetry_map_oo(s, i - 9) + 9 : i \in {j \in grid : j >= 9 /\ j < 18}}

Board_new ==
    [grids |-> [oo \in 0..8 |-> {}], main_grid |-> {}, last_move |-> None, next_player |-> "X",
     won_by |-> None, macro_mask |-> FULL_MASK, macro_open |-> FULL_MASK]

Board_is_done(b) == b.won_by # None

\* Board::map_symmetry
Board_map_symmetry(b, s) ==
    [grids |-> [oo \in 0..8 |->
                   Symmetry_map_grid(s, b.grids[CHOOSE o \in 0..8 : Symmetry_map_oo(s, o) = oo])],
     main_grid |-> {},
     last_move |-> IF b.last_move = None THEN None ELSE Some(Symmetry_map_coord(s, b.last_move[1])),
     next_player |-> b.next_player,
     won_by |-> b.won_by,
     macro_mask |-> Symmetry_map_grid(s, b.macro_mask),
     macro_open |-> Symmetry_map_grid(s, b.macro_open)]

\* the elements of a set of numbers in increasing order
RECURSIVE Ascending(_)
Ascending(S) == IF S = {} THEN <<>> ELSE <<SetMin(S)>> \o Ascending(S \ {SetMin(S)})

\* x.trailing_zeros() of a u32
trailing_zeros(x) == IF x = {} THEN 32 ELSE SetMin(x)

\* BoardMoveIterator: the macros of the mask in bit order, in each the empty
\* tiles in bit order.  For a macro without an empty tile grid_left is 0
\* when next reads it: a release build yields the tile trailing_zeros(0) of
\* the macro and goes on (a debug build panics on grid_left - 1)
RECURSIVE moves_of_macros(_, _)
moves_of_macros(b, macros) ==
    IF macros = <<>> THEN <<>>
    ELSE LET curr_om == macros[1]
             grid_left == Ascending(FULL_MASK \ compact_grid(b.grids[curr_om]))
         IN  (IF grid_left = <<>> THEN <<Coord_from_oo(curr_om, trailing_zeros({}))>>
              ELSE [k \in 1..Len(grid_left) |-> Coord_from_oo(curr_om, grid_left[k])])
             \o moves_of_macros(b, Tail(macros))

Board_available_moves(b) ==
    IF Board_is_done(b) THEN <<>> ELSE moves_of_macros(b, Ascending(b.macro_mask))

Board_is_available_move(b, coord) ==
    /\ has_bit(b.macro_mask, Coord_om(coord))
    /\ ~has_bit(compact_grid(b.grids[Coord_om(coord)]), Coord_os(coord))

calc_macro_mask(macro_open, os) == IF has_bit(macro_open, os) THEN {os} ELSE macro_open

\* mutant: a macro is closed when it is won, not when it is full
set_tile_and_update_full_stays_open(b, player, coord) ==
    LET om == Coord_om(coord)
        os == Coord_os(coord)
        p == 9 * Player_index(player)
        new_grid == b.grids[om] \cup {os + p}
        grid_win == is_win_grid(shr(new_grid, p) \cap FULL_MASK)
        new_main_grid == IF grid_win THEN b.main_grid \cup {om + p} ELSE b.main_grid
        won1 == IF grid_win /\ is_win_grid(shr(new_main_grid, p) \cap FULL_MASK)
                THEN Some(player) ELSE b.won_by
        new_open == IF grid_win THEN b.macro_open \ {om} ELSE b.macro_open
        won2 == IF grid_win /\ new_open = {} /\ won1 = None THEN Some("Neutral") ELSE won1
    IN  [b EXCEPT !.grids[om] = new_grid,
                  !.main_grid = new_main_grid,
                  !.won_by = won2,
                  !.macro_open = new_open,
                  !.macro_mask = calc_macro_mask(new_open, os)]

\* Board::set_tile_and_update: the board afterwards
set_tile_and_update(b, player, coord) ==
    LET om == Coord_om(coord)
        os == Coord_os(coord)
        p == 9 * Player_index(player)
        new_grid == b.grids[om] \cup {os + p}
        grid_win == is_win_grid(shr(new_grid, p) \cap FULL_MASK)
        new_main_grid == IF grid_win THEN b.main_grid \cup {om + p} ELSE b.main_grid
        won1 == IF grid_win /\ is_win_grid(shr(new_main_grid, p) \cap FULL_MASK)
                THEN Some(player) ELSE b.won_by
        closes == grid_win \/ count_ones(new_grid) = 9
        new_open == IF closes THEN b.macro_open \ {om} ELSE b.macro_open
        won2 == IF closes /\ new_open = {} /\ won1 = None THEN Some("Neutral") ELSE won1
    IN  [b EXCEPT !.grids[om] = new_grid,
                  !.main_grid = new_main_grid,
                  !.won_by = won2,
                  !.macro_open = new_open,
                  !.macro_mask = calc_macro_mask(new_open, os)]

\* Board::play on a board that is not done, with an available move
Board_play(b, coord) ==
    [set_tile_and_update(b, b.next_player, coord) EXCEPT
        !.last_move = Some(coord),
        !.next_player = Player_other(b.next_player)]

\* mutant: the entry is read at the child's own position
Board_for_each_unmapped(b, s, sym_policy) ==
    LET moves == Board_available_moves(b)
    IN  for_each_policy(moves, moves, moves, sym_policy)

\* for_each_original_move_and_policy on an ultimate tic-tac-toe board
Board_for_each_original_move_and_policy(b, s, sym_policy) ==
    LET moves == Board_available_moves(b)
    IN  for_each_policy(moves, Board_available_moves(Board_map_symmetry(b, s)),
                        [i \in 1..Len(moves) |-> Symmetry_map_coord(s, moves[i])], sym_policy)

\* Board::count_tiles
RECURSIVE count_tiles_from(_, _)
count_tiles_from(b, oo) == IF oo > 8 THEN 0 ELSE count_ones(b.grids[oo]) + count_tiles_from(b, oo + 1)

count_tiles(b) == count_tiles_from(b, 0)

\* get_nth_set_bit of a u32
RECURSIVE get_nth_set_bit(_, _)
get_nth_set_bit(x, n) ==
    IF n = 0 \/ x = {} THEN trailing_zeros(x) ELSE get_nth_set_bit(x \ {SetMin(x)}, n - 1)

\* !x of a u32
not_u32(x) == (0..31) \ x

\* random_available_move: the number of moves counted over the macros
RECURSIVE random_count(_, _)
random_count(b, macros) ==
    IF macros = <<>> THEN 0
    ELSE (9 - count_ones(b.grids[macros[1]])) + random_count(b, Tail(macros))

\* random_available_move: the second loop over the macros, None where the
\* code runs into unreachable!()
RECURSIVE random_pick_from(_, _, _)
random_pick_from(b, macros, index) ==
    IF macros = <<>> THEN None
    ELSE LET om == macros[1]
             grid == b.grids[om]
             grid_count == 9 - count_ones(grid)
         IN  IF index < grid_count
             THEN Some(Coord_from_oo(om, get_nth_set_bit(not_u32(compact_grid(grid)), index)))
             ELSE random_pick_from(b, Tail(macros), index - grid_count)

\* mutant: the move is picked among the open macros
random_pick_open(b, index) == random_pick_from(b, Ascending(b.macro_open), index)

\* random_available_move on a board that is not done, for the index drawn
random_pick(b, index) == random_pick_from(b, Ascending(b.macro_mask), index)

\* a game played to its end, a draw, by legal moves from Board::new()
LateGame ==
    << 4, 36, 6, 54, 8, 79, 70, 66, 31, 40, 41, 46, 12, 29, 22, 39, 30, 32, 45, 5, 48, 28, 15, 60,
       59, 50, 47, 26, 72, 2, 18, 7, 65, 23, 52, 69, 55, 9, 0, 56, 24, 62, 78, 58, 44, 74, 21, 27,
       49, 38, 43, 63, 77, 53, 80, 76, 37, 11, 17, 75, 13, 42, 51, 16, 73, 14, 10 >>

\* the board after the moves are played one after the other; a move that is
\* not available ends the play
RECURSIVE play_all(_, _)
play_all(b, moves) ==
    IF moves = <<>> \/ Board_is_done(b) \/ ~Board_is_available_move(b, moves[1]) THEN b
    ELSE play_all(Board_play(b, moves[1]), Tail(moves))

\* bounds of the play: the tiles used and the number of moves from the
\* empty board, and the number of moves left of the game played to its end
PlayCells == {0, 1, 2}
MaxPlies == 5
MaxHot == 1
MaxLate == 7

\* the board of the game MaxLate moves before its end
LateBoard == play_all(Board_new, SubSeq(LateGame, 1, Len(LateGame) - MaxLate))

\* the play is followed here
in_play(b) ==
    \/ count_tiles(b) < MaxPlies
    \/ (count_tiles(b) >= Len(LateGame) - MaxLate /\ count_tiles(b) < Len(LateGame))

PlayCoords == {Coord_from_oo(om, os) : om \in PlayCells, os \in PlayCells}

\* the policy that is all on entry hot
OneHot(n, hot) == [i \in 1..n |-> IF i = hot THEN PolicyDen ELSE 0]

board_unchanged == UNCHANGED <<prog, fpu_mode, root_board, tree, requests, expected_nodes, response,
                               result, pc, target, batch_size, stop, kept, hist, untracked, rejected,
                               idx_range, chess, gpu, server>>

\* a legal move is played on the board
BoardPlay ==
    /\ prog = "board" /\ sym_test = None
    /\ random_move = None
    /\ ~Board_is_done(sttt)
    /\ in_play(sttt)
    /\ \E coord \in (IF count_tiles(sttt) < MaxPlies THEN PlayCoords ELSE 0..80) :
        /\ Board_is_available_move(sttt, coord)
        /\ sttt' = Board_play(sttt, coord)
    /\ UNCHANGED <<sym_test, random_move, panic>>
    /\ last' = [op |-> "board_play", node |-> 0]
    /\ board_unchanged

\* Board::random_available_move on the board reached; the play is not
\* followed beyond it.  gen_range panics on an empty range
BoardRandomMove ==
    /\ prog = "board" /\ sym_test = None /\ random_move = None
    /\ IF Board_is_done(sttt)
       THEN /\ random_move' = Some([index |-> 0, move |-> None])
            /\ panic' = panic
       ELSE LET count == random_count(sttt, Ascending(sttt.macro_mask)) IN
            IF count = 0
            THEN /\ random_move' = Some([index |-> 0, move |-> None])
                 /\ panic' = TRUE
            ELSE \E index \in 0..(count - 1) :
                    /\ random_move' = Some([index |-> index, move |-> random_pick(sttt, index)])
                    /\ panic' = (random_pick(sttt, index) = None)
    /\ UNCHANGED <<sttt, sym_test>>
    /\ last' = [op |-> "random_available_move", node |-> 0]
    /\ board_unchanged

\* one iteration of the loop of test::symmetries on the board reached, and
\* the priors apply_eval reads for a policy evaluated on the mapped board;
\* the play is not followed beyond it
BoardSymmetries ==
    /\ prog = "board" /\ sym_test = None /\ random_move = None
    /\ \E sym \in Symmetry_all :
        LET sym_inv == Symmetry_inverse(sym)
            mapped == Board_map_symmetry(sttt, sym)
            back == Board_map_symmetry(mapped, sym_inv)
            n == Len(Board_available_moves(sttt))
        IN  \E hot \in (IF n = 0 THEN {0} ELSE 1..Min(n, MaxHot)) :
                sym_test' = Some([sym |-> sym, mapped |-> mapped, back |-> back, hot |-> hot,
                                  priors |-> IF n = 0 THEN None
                                             ELSE Board_for_each_original_move_and_policy(
                                                      sttt, sym, OneHot(n, hot))])
    /\ UNCHANGED <<sttt, random_move, panic>>
    /\ last' = [op |-> "symmetries", node |-> 0]
    /\ board_unchanged

(***************************************************************************)
(* alpha-zero/src/mapping/chess.rs: the policy index of a chess move.  A   *)
(* square is [rank, file] with both in 0..7, a move is [source, dest,      *)
(* promotion] with promotion an Option<Piece>.                             *)
(***************************************************************************)
QUEEN_CHANNELS == 7 * 8

KNIGHT_CHANNELS == 8

UNDERPROMOTION_CHANNELS == 3 * 3

POLICY_CHANNELS == QUEEN_CHANNELS + KNIGHT_CHANNELS + UNDERPROMOTION_CHANNELS

POLICY_SIZE == POLICY_CHANNELS * 8 * 8

\* clockwise starting from NNE, as (rank, file)
KNIGHT_DELTAS == <<<<2, 1>>, <<1, 2>>, <<-1, 2>>, <<-2, 1>>, <<-2, -1>>, <<-1, -2>>, <<1, -2>>, <<2, -1>>>>

\* clockwise starting from N
QUEEN_DIRECTIONS == <<<<1, 0>>, <<1, 1>>, <<0, 1>>, <<-1, 1>>, <<-1, 0>>, <<-1, -1>>, <<0, -1>>, <<1, -1>>>>

UNDERPROMOTION_PIECES == <<"Rook", "Bishop", "Knight">>

signum(x) == IF x > 0 THEN 1 ELSE IF x < 0 THEN -1 ELSE 0

abs(x) == IF x < 0 THEN -x ELSE x

\* IndexOf::index_of: the 0-based position of the first equal element
index_of(s, x) ==
    IF \E i \in 1..Len(s) : s[i] = x
    THEN Some(SetMin({i \in 1..Len(s) : s[i] = x}) - 1)
    ELSE None

make_square(rank, file) == [rank |-> rank, file |-> file]

Square_to_index(sq) == sq.rank * 8 + sq.file

square_from_index(index) == make_square(index \div 8, index % 8)

square(rank, file) ==
    IF rank \in 0..7 /\ file \in 0..7 THEN Some(make_square(rank, file)) ELSE None

square_pov(color, sq) ==
    IF color = "White" THEN sq ELSE make_square(7 - sq.rank, sq.file)

ChessMove_new(source, dest, promotion) == [source |-> source, dest |-> dest, promotion |-> promotion]

move_pov(color, mv) ==
    ChessMove_new(square_pov(color, mv.source), square_pov(color, mv.dest), mv.promotion)

\* ClassifiedPovMove::from_move; kind "panic" is the panic! at its end
from_move(mv) ==
    LET rank_delta == mv.dest.rank - mv.source.rank
        file_delta == mv.dest.file - mv.source.file
        under == IF mv.promotion = None THEN None ELSE index_of(UNDERPROMOTION_PIECES, mv.promotion[1])
        qdir == index_of(QUEEN_DIRECTIONS, <<signum(rank_delta), signum(file_delta)>>)
        distance == IF abs(rank_delta) > abs(file_delta) THEN abs(rank_delta) ELSE abs(file_delta)
        kdir == index_of(KNIGHT_DELTAS, <<rank_delta, file_delta>>)
    IN  IF under # None
        THEN [kind |-> "UnderPromotion", direction |-> signum(file_delta) + 1, piece |-> under[1]]
        ELSE IF /\ qdir # None
                /\ rank_delta = QUEEN_DIRECTIONS[qdir[1] + 1][1] * distance
                /\ file_delta = QUEEN_DIRECTIONS[qdir[1] + 1][2] * distance
        THEN [kind |-> "Queen", direction |-> qdir[1], distance_m1 |-> distance - 1]
        ELSE IF kdir # None
        THEN [kind |-> "Knight", direction |-> kdir[1]]
        ELSE [kind |-> "panic"]

\* ClassifiedPovMove::to_channel: None where an assertion fails
to_channel(c) ==
    IF c.kind = "Queen"
    THEN IF c.direction < 8 /\ c.distance_m1 < 7 THEN Some(c.direction * 7 + c.distance_m1) ELSE None
    ELSE IF c.kind = "Knight"
    THEN IF c.direction < 8 THEN Some(QUEEN_CHANNELS + c.direction) ELSE None
    ELSE IF c.kind = "UnderPromotion"
    THEN IF c.direction < 3 /\ c.piece < 3
         THEN Some(QUEEN_CHANNELS + KNIGHT_CHANNELS + c.direction * 3 + c.piece) ELSE None
    ELSE None

\* ClassifiedPovMove::from_channel, for channel < POLICY_CHANNELS
from_channel(channel) ==
    IF channel < QUEEN_CHANNELS
    THEN [kind |-> "Queen", direction |-> channel \div 7, distance_m1 |-> channel % 7]
    ELSE IF channel < QUEEN_CHANNELS + KNIGHT_CHANNELS
    THEN [kind |-> "Knight", direction |-> channel - QUEEN_CHANNELS]
    ELSE LET left == channel - (QUEEN_CHANNELS + KNIGHT_CHANNELS)
         IN  [kind |-> "UnderPromotion", direction |-> left \div 3, piece |-> left % 3]

\* mutant: a queen-like move to the back rank promotes whatever piece moves
to_move_always_promotes(c, moving_pawn, from) ==
    IF c.kind = "Queen"
    THEN LET distance == c.distance_m1 + 1
             to == square(from.rank + distance * QUEEN_DIRECTIONS[c.direction + 1][1],
                          from.file + distance * QUEEN_DIRECTIONS[c.direction + 1][2])
         IN  IF to = None THEN None
             ELSE Some(ChessMove_new(from, to[1], IF to[1].rank = 7 THEN Some("Queen") ELSE None))
    ELSE IF c.kind = "Knight"
    THEN LET to == square(from.rank + KNIGHT_DELTAS[c.direction + 1][1],
                          from.file + KNIGHT_DELTAS[c.direction + 1][2])
         IN  IF to = None THEN None ELSE Some(ChessMove_new(from, to[1], None))
    ELSE LET to == square(7, from.file + (c.direction - 1))
         IN  IF to = None THEN None
             ELSE Some(ChessMove_new(from, to[1], Some(UNDERPROMOTION_PIECES[c.piece + 1])))

\* ClassifiedPovMove::to_move
to_move(c, moving_pawn, from) ==
    IF c.kind = "Queen"
    THEN LET distance == c.distance_m1 + 1
             to == square(from.rank + distance * QUEEN_DIRECTIONS[c.direction + 1][1],
                          from.file + distance * QUEEN_DIRECTIONS[c.direction + 1][2])
         IN  IF to = None THEN None
             ELSE Some(ChessMove_new(from, to[1],
                                     IF moving_pawn /\ to[1].rank = 7 THEN Some("Queen") ELSE None))
    ELSE IF c.kind = "Knight"
    THEN LET to == square(from.rank + KNIGHT_DELTAS[c.direction + 1][1],
                          from.file + KNIGHT_DELTAS[c.direction + 1][2])
         IN  IF to = None THEN None ELSE Some(ChessMove_new(from, to[1], None))
    ELSE LET to == square(7, from.file + (c.direction - 1))
         IN  IF to = None THEN None
             ELSE Some(ChessMove_new(from, to[1], Some(UNDERPROMOTION_PIECES[c.piece + 1])))

\* the part of a ChessBoard the mapper reads: the side to move and the
\* piece on a square (here the board's one piece of interest)
piece_on(board, sq) == IF sq = board.at THEN Some(board.piece) ELSE None

\* ChessStdMapper::move_to_index: None where an assertion or from_move panics
move_to_index(board, mv_abs) ==
    LET mv == move_pov(board.side_to_move, mv_abs)
        classified == from_move(mv)
        channel == to_channel(classified)
    IN  IF classified.kind = "panic" \/ channel = None THEN None
        ELSE IF channel[1] >= POLICY_CHANNELS THEN None
        ELSE LET index == channel[1] * 8 * 8 + Square_to_index(mv.source)
             IN  IF index < POLICY_SIZE THEN Some(index) ELSE None

\* ChessStdMapper::index_to_move
index_to_move(board, index) ==
    LET channel == index \div (8 * 8)
        from_index == index % (8 * 8)
        classified == from_channel(channel)
        from == square_from_index(from_index)
        side == board.side_to_move
        from_abs == square_pov(side, from)
        moving_pawn == piece_on(board, from_abs) = Some("Pawn")
        mv == to_move(classified, moving_pawn, from)
    IN  IF mv = None THEN None ELSE Some(move_pov(side, mv[1]))

\* the moves a piece of the side to move can make from a square on some
\* board (rules of chess: occupancy of the other squares is left open);
\* castling is the king's move of two files
Squares == {make_square(r, f) : r \in 0..7, f \in 0..7}

Rays(sq, dirs) ==
    {make_square(sq.rank + k * dirs[d][1], sq.file + k * dirs[d][2]) : d \in DOMAIN dirs, k \in 1..7}
        \cap Squares

PieceDests(side, piece, sq) ==
    LET up == IF side = "White" THEN 1 ELSE -1
        home == IF side = "White" THEN 0 ELSE 7
    IN  IF piece = "Pawn"
        THEN IF sq.rank \in {0, 7} THEN {}
             ELSE ({make_square(sq.rank + up, sq.file + df) : df \in {-1, 0, 1}} \cap Squares)
                      \cup (IF sq.rank = home + up THEN {make_square(sq.rank + 2 * up, sq.file)} ELSE {})
        ELSE IF piece = "Knight"
        THEN {make_square(sq.rank + KNIGHT_DELTAS[d][1], sq.file + KNIGHT_DELTAS[d][2]) : d \in 1..8}
                 \cap Squares
        ELSE IF piece = "Bishop" THEN Rays(sq, <<<<1, 1>>, <<-1, 1>>, <<-1, -1>>, <<1, -1>>>>)
        ELSE IF piece = "Rook" THEN Rays(sq, <<<<1, 0>>, <<0, 1>>, <<-1, 0>>, <<0, -1>>>>)
        ELSE IF piece = "Queen" THEN Rays(sq, QUEEN_DIRECTIONS)
        ELSE ({make_square(sq.rank + QUEEN_DIRECTIONS[d][1], sq.file + QUEEN_DIRECTIONS[d][2]) : d \in 1..8}
                  \cap Squares)
                 \cup (IF sq = make_square(home, 4) THEN {make_square(home, 2), make_square(home, 6)} ELSE {})

PieceMoves(side, piece, sq) ==
    LET last_rank == IF side = "White" THEN 7 ELSE 0
    IN  UNION {IF piece = "Pawn" /\ to.rank = last_rank
               THEN {ChessMove_new(sq, to, Some(p)) : p \in {"Queen", "Rook", "Bishop", "Knight"}}
               ELSE {ChessMove_new(sq, to, None)} : to \in PieceDests(side, piece, sq)}

ChessBoards ==
    [side_to_move : {"White", "Black"},
     piece : {"Pawn", "Knight", "Bishop", "Rook", "Queen", "King"},
     at : Squares]

\* the search and the board stay as they are
search_vars == <<fpu_mode, root_board, tree, requests, expected_nodes, response, result, pc, target,
                 batch_size, stop, kept, hist, untracked, rejected, sttt, sym_test, random_move,
                 idx_range, panic>>

chess_unchanged == UNCHANGED <<prog, search_vars, gpu, server>>

\* move_to_index on the move drawn
ChessMoveToIndex ==
    /\ prog = "chess" /\ chess.stage = "start"
    /\ chess' = [chess EXCEPT !.stage = "encoded", !.index = move_to_index(chess.board, chess.mv)]
    /\ last' = [op |-> "move_to_index", node |-> 0]
    /\ chess_unchanged

\* index_to_move on the index returned
ChessIndexToMove ==
    /\ prog = "chess" /\ chess.stage = "encoded" /\ chess.index # None
    /\ chess' = [chess EXCEPT !.stage = "decoded", !.back = index_to_move(chess.board, chess.index[1])]
    /\ last' = [op |-> "index_to_move", node |-> 0]
    /\ chess_unchanged

(***************************************************************************)
(* test-async/src/main.rs: futures that send jobs over a bounded channel   *)
(* to the executor thread gpu_main and await the answer on a oneshot       *)
(* channel; alpha-zero/src/network/cudnn.rs: the padded batch evaluation.  *)
(***************************************************************************)
MaxFutures == 3    \* future_count
MaxGpuBatch == 2   \* batch_size
MaxJobs == 2       \* jobs per future (for x in 0..)

NAN == -1

\* the work done on one slot of a batch (x + 1 in gpu_main)
net(x) == IF x = NAN THEN NAN ELSE x + 1

\* the executor runs the graph on the whole input buffer, slot by slot
executor_evaluate(input) == [i \in 1..Len(input) |-> net(input[i])]

\* Vec::resize(new_len, value) on a shorter vector
resize(v, new_len, value) == [i \in 1..new_len |-> IF i <= Len(v) THEN v[i] ELSE value]

\* CudnnNetwork::evaluate_batch: None where the assertion fails
evaluate_batch(boards, max_batch_size) ==
    LET n == Len(boards)
        input == resize(boards, max_batch_size, NAN)
        outputs == executor_evaluate(input)
    IN  IF n <= max_batch_size THEN Some(SubSeq(outputs, 1, n)) ELSE None

\* mutant: the answers are handed out in the opposite order
RECURSIVE send_all_reversed(_, _, _)
send_all_reversed(oneshot, batch_senders, batch_y) ==
    IF batch_senders = <<>> \/ batch_y = <<>> THEN oneshot
    ELSE send_all_reversed([oneshot EXCEPT ![batch_senders[1]] = @ \o <<batch_y[Len(batch_y)]>>],
                           Tail(batch_senders), SubSeq(batch_y, 1, Len(batch_y) - 1))

\* zip(batch_senders, batch_y): sender.send(y) for each pair
RECURSIVE send_all(_, _, _)
send_all(oneshot, batch_senders, batch_y) ==
    IF batch_senders = <<>> \/ batch_y = <<>> THEN oneshot
    ELSE send_all([oneshot EXCEPT ![batch_senders[1]] = @ \o <<batch_y[1]>>],
                  Tail(batch_senders), Tail(batch_y))

gpu_unchanged == UNCHANGED <<prog, search_vars, chess, server>>

\* GpuClient::map: the future sends its job and starts to await the answer
GpuClientMap ==
    /\ prog = "gpu" /\ gpu.boards = None
    /\ \E fi \in 1..gpu.future_count :
        /\ gpu.futures[fi].pc = "loop"
        /\ gpu.futures[fi].x < MaxJobs
        /\ Len(gpu.job_queue) < gpu.channel_capacity
        /\ gpu' = [gpu EXCEPT !.job_queue = @ \o <<[x |-> gpu.futures[fi].x, sender |-> fi]>>,
                              !.futures[fi].pc = "await"]
    /\ last' = [op |-> "map", node |-> 0]
    /\ gpu_unchanged

\* the future is woken with the answer and goes round its loop
GpuClientWake ==
    /\ prog = "gpu" /\ gpu.boards = None
    /\ \E fi \in 1..gpu.future_count :
        /\ gpu.futures[fi].pc = "await"
        /\ gpu.oneshot[fi] # <<>>
        /\ gpu' = [gpu EXCEPT !.futures[fi] = [pc |-> "loop", x |-> @.x + 1,
                                               got |-> @.got \o <<gpu.oneshot[fi][1]>>],
                              !.oneshot[fi] = Tail(@)]
    /\ last' = [op |-> "wake", node |-> 0]
    /\ gpu_unchanged

\* gpu_main, collect jobs: one job_receiver.recv() of the while loop
GpuRecv ==
    /\ prog = "gpu" /\ gpu.boards = None
    /\ Len(gpu.batch_x) < gpu.batch_size
    /\ gpu.job_queue # <<>>
    /\ gpu' = [gpu EXCEPT !.job_queue = Tail(@),
                          !.batch_x = @ \o <<gpu.job_queue[1].x>>,
                          !.batch_senders = @ \o <<gpu.job_queue[1].sender>>]
    /\ last' = [op |-> "recv", node |-> 0]
    /\ gpu_unchanged

\* gpu_main, the batch is full: process it and respond to the requests
GpuBatch ==
    /\ prog = "gpu" /\ gpu.boards = None
    /\ ~(Len(gpu.batch_x) < gpu.batch_size)
    /\ LET batch_y == [i \in 1..Len(gpu.batch_x) |-> gpu.batch_x[i] + 1]
       IN  gpu' = [gpu EXCEPT !.oneshot = send_all(@, gpu.batch_senders, batch_y),
                              !.batch_x = <<>>,
                              !.batch_senders = <<>>]
    /\ last' = [op |-> "batch", node |-> 0]
    /\ gpu_unchanged

\* a caller hands boards to CudnnNetwork::evaluate_batch (a call of its
\* own: the futures are not followed beside it)
GpuEvaluateBatch ==
    /\ prog = "gpu"
    /\ last.op = "init"
    /\ \E n \in 0..gpu.batch_size :
        \E boards \in [1..n -> 0..MaxJobs] :
            gpu' = [gpu EXCEPT !.boards = Some(boards),
                               !.evals = evaluate_batch(boards, gpu.batch_size)]
    /\ last' = [op |-> "evaluate_batch", node |-> 0]
    /\ gpu_unchanged

(***************************************************************************)
(* The self-play server: selfplay_server_main and selfplay_start           *)
(* (alpha-zero/src/selfplay/server.rs), the collector thread               *)
(* (selfplay/collector.rs) and the generator threads                       *)
(* (kz-selfplay/src/server/generator_muzero.rs).  The commander is not in  *)
(* the sources at hand and follows the specification's section 4.8.  A     *)
(* channel is its queue and the flags of its dropped ends.  The generators *)
(* play the heap game; the search of one move decision is one step that    *)
(* may pick any available move.                                            *)
(***************************************************************************)
MaxGamesPerGen == 2    \* largest games_per_gen of the startup settings
MaxGames == 2          \* games the generators start, all together
MaxNewSettings == 1    \* NewSettings commands the client sends
MaxQueue == 1          \* updates waiting in the update channel

\* u32::MAX = 2^32 - 1, written modulo 2^32
U32_MAX == 0 - 1

\* a u64 is hi * 2^32 + lo
u64(hi, lo) == [hi |-> hi, lo |-> lo]

U64_MAX == u64(U32_MAX, U32_MAX)

\* `as u32` keeps the low 32 bits
as_u32(x) == x.lo

\* Option::unwrap_or
unwrap_or(o, d) == IF o = None THEN d ELSE o[1]

ThreadCounts == {1, 2}

CommandKinds == {"StartupSettings", "NewSettings", "NewNetwork", "WaitForNewNetwork", "Stop"}

GameIds == {"ttt", "sttt", "chess", "ataxx", "ataxx-5", "ataxx-x", "go"}

\* str.strip_prefix("ataxx-") on the ids above
strip_prefix_ataxx(str) ==
    IF str = "ataxx-5" THEN Some("5") ELSE IF str = "ataxx-x" THEN Some("x") ELSE None

\* str.parse::<u8>().ok() on the suffixes above
parse_u8(str) == IF str = "5" THEN Some(5) ELSE None

Game_parse(str) ==
    IF str = "ttt" THEN Some([game |-> "TTT"])
    ELSE IF str = "sttt" THEN Some([game |-> "STTT"])
    ELSE IF str = "chess" THEN Some([game |-> "Chess"])
    ELSE IF str = "ataxx" THEN Some([game |-> "Ataxx", size |-> 7])
    ELSE LET size == strip_prefix_ataxx(str) IN
         IF size # None /\ parse_u8(size[1]) # None
         THEN Some([game |-> "Ataxx", size |-> parse_u8(size[1])[1]])
         ELSE None

StartupSettingsSet ==
    [game : GameIds, threads_per_device : ThreadCounts, batch_size : 0..1,
     games_per_gen : 0..MaxGamesPerGen, first_gen : {3}]

Commands ==
    {[kind |-> k] : k \in CommandKinds \ {"StartupSettings"}}
    \cup {[kind |-> "StartupSettings", startup |-> s] : s \in StartupSettingsSet}

Settings_new(max_game_length, full_search_prob) ==
    [max_game_length |-> max_game_length, full_search_prob |-> full_search_prob,
     full_iterations |-> 2, part_iterations |-> 1, dirichlet_eps |-> <<1, 2>>]

\* full_search_prob and dirichlet_eps are fractions <<numerator, denominator>>
SettingsSet ==
    {Settings_new(None, <<1, 2>>), Settings_new(Some(u64(0, 1)), <<1, 1>>),
     Settings_new(Some(u64(1, 1)), <<0, 1>>)}

\* rng.gen_bool(p): the outcomes that have a positive probability
gen_bool(p) == IF p[1] = 0 THEN {FALSE} ELSE IF p[1] = p[2] THEN {TRUE} ELSE BOOLEAN

\* a generator thread
Generator_new(size) ==
    [pc |-> "recv", batch_size |-> size, settings |-> None, max_moves |-> 0,
     curr_board |-> None, positions |-> <<>>, played |-> 0, is_full_search |-> FALSE,
     target_visits |-> None, root_net_eval |-> None, response |-> None, games |-> 0]

Channel_new == [queue |-> <<>>, senders_dropped |-> FALSE, receiver_dropped |-> FALSE]

Collector_new(games_per_file, first_gen) ==
    [pc |-> "recv", games_per_file |-> games_per_file, first_gen |-> first_gen,
     curr_gen |-> first_gen, curr_game_count |-> 0,
     outputs |-> <<[count |-> 0, finished |-> FALSE]>>, simulations |-> 0]

Collector_unspawned == [pc |-> "unspawned"]

\* the board every game starts from
start_pos == [heap |-> 2, next |-> "A", taken |-> 0]

wait_for_startup_settings_any(command) ==
    IF command.kind = "StartupSettings" THEN Some(command.startup)
    ELSE Some(CHOOSE s \in StartupSettingsSet : s.game = "ttt" /\ s.batch_size = 1)

\* None stands for the panic
wait_for_startup_settings(command) ==
    IF command.kind = "StartupSettings" THEN Some(command.startup) ELSE None

server_unchanged == UNCHANGED <<prog, search_vars, last, chess, gpu>>

\* selfplay_server_main up to the call of commander_main
ServerStartup ==
    /\ prog = "server" /\ server.main = "wait"
    /\ \E command \in Commands :
         LET startup == wait_for_startup_settings(command) IN
         IF startup = None
         THEN server' = [server EXCEPT !.main = "panic", !.first = command.kind,
                           !.fail = "Must receive startup settings before any other command"]
         ELSE LET s == startup[1] IN
              IF Game_parse(s.game) = None
              THEN server' = [server EXCEPT !.main = "panic", !.first = command.kind,
                                !.fail = "Unknown game"]
              ELSE server' = [server EXCEPT
                     !.main = "commander", !.first = command.kind,
                     !.generators = [g \in 1..s.threads_per_device |-> Generator_new(s.batch_size)],
                     !.cmd = [g \in 1..s.threads_per_device |-> Channel_new],
                     !.collector = Collector_new(s.games_per_gen, s.first_gen)]
    /\ server_unchanged

\* Sender::send: None stands for the error of a channel whose receiver is gone
send(ch, msg) == IF ch.receiver_dropped THEN None ELSE Some([ch EXCEPT !.queue = Append(@, msg)])

\* the update channel is unbounded; the collector keeps up with MaxQueue updates
has_room(ch) == ch.receiver_dropped \/ Len(ch.queue) < MaxQueue

\* the commander handles NewSettings: broadcast to all generators
CommanderNewSettings ==
    /\ prog = "server" /\ server.main = "commander"
    /\ server.new_settings < MaxNewSettings
    /\ \E settings \in SettingsSet :
         server' = [server EXCEPT
             !.new_settings = @ + 1,
             !.cmd = [g \in DOMAIN server.cmd |-> send(server.cmd[g], settings)[1]]]
    /\ server_unchanged

\* the commander handles Stop: it poisons the update channel and closes the
\* command channels
CommanderStop ==
    /\ prog = "server" /\ server.main = "commander"
    /\ has_room(server.update)
    /\ server' = [server EXCEPT
           !.main = "stopped",
           !.update = send(server.update, "Stop")[1],
           !.cmd = [g \in DOMAIN server.cmd |-> [server.cmd[g] EXCEPT !.senders_dropped = TRUE]]]
    /\ server_unchanged

collector_update_gt(c, writer, update) ==
    IF update = "Stop"
    THEN [collector |-> [c EXCEPT !.pc = "stopped"], writer |-> Append(writer, [kind |-> "Stopped"])]
    ELSE IF update = "FinishedSimulation"
    THEN LET n == Len(c.outputs)
             c1 == [c EXCEPT !.outputs[n].count = @ + 1, !.curr_game_count = @ + 1,
                             !.simulations = @ + 1]
         IN IF c1.curr_game_count > c1.games_per_file
            THEN LET prev_i == c1.curr_gen IN
                 [collector |-> [c1 EXCEPT !.outputs[n].finished = TRUE, !.curr_gen = @ + 1,
                                           !.curr_game_count = 0,
                                           !.outputs = Append(@, [count |-> 0, finished |-> FALSE])],
                  writer |-> Append(writer, [kind |-> "FinishedFile", index |-> prev_i])]
            ELSE [collector |-> c1, writer |-> writer]
    ELSE [collector |-> c, writer |-> writer]

\* one iteration of the loop of collector_main, and the lines after the loop
\* when it breaks; outputs[i] is the output of generation first_gen + i - 1
collector_update(c, writer, update) ==
    IF update = "Stop"
    THEN [collector |-> [c EXCEPT !.pc = "stopped"], writer |-> Append(writer, [kind |-> "Stopped"])]
    ELSE IF update = "FinishedSimulation"
    THEN LET n == Len(c.outputs)
             c1 == [c EXCEPT !.outputs[n].count = @ + 1, !.curr_game_count = @ + 1,
                             !.simulations = @ + 1]
         IN IF c1.curr_game_count >= c1.games_per_file
            THEN LET prev_i == c1.curr_gen IN
                 [collector |-> [c1 EXCEPT !.outputs[n].finished = TRUE, !.curr_gen = @ + 1,
                                           !.curr_game_count = 0,
                                           !.outputs = Append(@, [count |-> 0, finished |-> FALSE])],
                  writer |-> Append(writer, [kind |-> "FinishedFile", index |-> prev_i])]
            ELSE [collector |-> c1, writer |-> writer]
    ELSE [collector |-> c, writer |-> writer]

\* the collector receives the next update; its receiver is dropped when it returns
CollectorRecv ==
    /\ prog = "server" /\ server.collector.pc = "recv"
    /\ server.update.queue # <<>>
    /\ LET r == collector_update(server.collector, server.writer, Head(server.update.queue)) IN
       server' = [server EXCEPT
           !.collector = r.collector, !.writer = r.writer,
           !.update = [@ EXCEPT !.queue = Tail(@),
                                !.receiver_dropped = (r.collector.pc = "stopped")]]
    /\ server_unchanged

\* update_sender.send(msg).unwrap() of generator g, which goes on at next_pc
send_update(g, gen, msg, next_pc) ==
    LET sent == send(server.update, msg) IN
    /\ has_room(server.update)
    /\ IF sent = None
       THEN server' = [server EXCEPT !.generators[g] = [gen EXCEPT !.pc = "panic_send"]]
       ELSE server' = [server EXCEPT !.generators[g] = [gen EXCEPT !.pc = next_pc],
                                     !.update = sent[1]]

\* settings_receiver.recv_async().await.unwrap(): the initial settings
GenRecvSettings(g) ==
    /\ prog = "server" /\ server.generators[g].pc = "recv"
    /\ LET ch == server.cmd[g] IN
       IF ch.queue # <<>>
       THEN server' = [server EXCEPT
                !.generators[g] = [@ EXCEPT !.pc = "loop", !.settings = Some(Head(ch.queue))],
                !.cmd[g] = [@ EXCEPT !.queue = Tail(@)]]
       ELSE /\ ch.senders_dropped
            /\ server' = [server EXCEPT !.generators[g] = [@ EXCEPT !.pc = "panic_recv"],
                                        !.cmd[g] = [@ EXCEPT !.receiver_dropped = TRUE]]
    /\ server_unchanged

draw_depth(max_moves, len_positions) == max_moves - len_positions

\* the test of the loop of generate_simulation: the game goes on ("game") or
\* the loop ends and the simulation is returned ("simulation")
loop_test(gen) ==
    IF is_done(gen.curr_board[1]) \/ draw_depth(gen.max_moves, Len(gen.positions)) = 0
    THEN "simulation" ELSE "game"

RECURSIVE games_started(_, _)
\* the games the first n generators have started
games_started(generators, n) ==
    IF n = 0 THEN 0 ELSE generators[n].games + games_started(generators, n - 1)

\* one iteration of the loop of generator_muzero_main up to the call of
\* generate_simulation, and the start of that function
GenLoop(g) ==
    /\ prog = "server" /\ server.generators[g].pc = "loop"
    /\ LET ch == server.cmd[g]
           gen == server.generators[g]
       IN IF ch.queue = <<>> /\ ch.senders_dropped
          THEN server' = [server EXCEPT !.generators[g] = [gen EXCEPT !.pc = "returned"],
                                        !.cmd[g] = [@ EXCEPT !.receiver_dropped = TRUE]]
          ELSE /\ games_started(server.generators, Len(server.generators)) < MaxGames
               /\ has_room(server.update)
               /\ LET settings == IF ch.queue # <<>> THEN Head(ch.queue) ELSE gen.settings[1]
                      gen1 == [gen EXCEPT
                          !.settings = Some(settings),
                          !.max_moves = as_u32(unwrap_or(settings.max_game_length, U64_MAX)),
                          !.curr_board = Some(start_pos), !.positions = <<>>, !.played = 0,
                          !.is_full_search = FALSE, !.target_visits = None,
                          !.games = @ + 1]
                      sent == send(server.update, "StartedSimulation")
                  IN IF sent = None
                     THEN server' = [server EXCEPT
                              !.generators[g] = [gen EXCEPT !.pc = "panic_send",
                                                            !.settings = Some(settings)],
                              !.cmd[g] = [@ EXCEPT !.queue = IF @ = <<>> THEN @ ELSE Tail(@),
                                                   !.receiver_dropped = TRUE]]
                     ELSE server' = [server EXCEPT
                              !.generators[g] = [gen1 EXCEPT !.pc = loop_test(gen1)],
                              !.cmd[g] = [@ EXCEPT !.queue = IF @ = <<>> THEN @ ELSE Tail(@)],
                              !.update = sent[1]]
    /\ server_unchanged

\* a probability is a multiple of 1 / ProbDen
ProbDen == 2 * 8

\* a logit x is written as ProbDen * exp(x): the softmax keeps the ratios of
\* what is written and the logarithm is the identity on it

\* the policy has one slot more than the game has moves (a slot no move maps to)
policy_len == MaxTake + 1

\* BoardMapper::move_to_index of the heap game
mapper_move_to_index(board, mv) == mv - 1

\* the network on the root board: values and the policy logits of all slots
root_net(board) ==
    [values |-> board.heap,
     policy_logits |-> [i \in 1..policy_len |->
                           IF i = policy_len THEN ProbDen
                           ELSE IF board.heap % 2 = 0 THEN (IF i = 1 THEN 12 ELSE 4) ELSE 8]]

RECURSIVE slice_sum(_, _)
slice_sum(v, n) == IF n = 0 THEN 0 ELSE v[n] + slice_sum(v, n - 1)

softmax_in_place(policy) ==
    [i \in DOMAIN policy |-> (policy[i] * ProbDen) \div slice_sum(policy, Len(policy))]

\* unsoftmax_in_place(policy, 0.0): the logits ln(policy[i]), written as said
unsoftmax_in_place(policy) == [i \in DOMAIN policy |-> policy[i]]

\* rng.sample(Dirichlet(alpha, mv_count)): positive parts that sum to one
NoiseSamples(mv_count) ==
    {noise \in [1..mv_count -> {4, 12, ProbDen}] : slice_sum(noise, mv_count) = ProbDen}

RECURSIVE mix_noise(_, _, _, _, _)
\* the for_each of add_dirichlet_noise over the first n available moves
mix_noise(policy, eps, board, noise, n) ==
    IF n = 0 THEN policy
    ELSE LET p == mix_noise(policy, eps, board, noise, n - 1)
             mi == mapper_move_to_index(board, available_moves(board)[n])
         IN [p EXCEPT ![mi + 1] = (p[mi + 1] * (eps[2] - eps[1]) + noise[n] * eps[1]) \div eps[2]]

add_dirichlet_noise_unguarded(policy_logits, settings, board, noise) ==
    unsoftmax_in_place(
        mix_noise(softmax_in_place(policy_logits), settings.dirichlet_eps, board, noise,
                  Len(available_moves(board))))

add_dirichlet_noise(policy_logits, settings, board, noise) ==
    LET policy == softmax_in_place(policy_logits)
        mv_count == Len(available_moves(board))
    IN unsoftmax_in_place(
           IF mv_count > 1
           THEN mix_noise(policy, settings.dirichlet_eps, board, noise, mv_count)
           ELSE policy)

extract_zero_eval(board, eval) ==
    [values |-> eval.values,
     policy |-> softmax_in_place(
         [i \in DOMAIN available_moves(board) |->
             eval.policy_logits[mapper_move_to_index(board, available_moves(board)[i]) + 1]])]

evaluate_root_noise_first(settings, board, noise) ==
    LET eval == root_net(board)
        noised == [eval EXCEPT !.policy_logits = add_dirichlet_noise(@, settings, board, noise)]
    IN [root_net_eval |-> Some(extract_zero_eval(board, noised)),
        response |-> Some([node |-> 0, eval |-> noised])]

\* the MuZeroRequest::Root arm of the search loop of generate_simulation
evaluate_root(settings, board, noise) ==
    LET eval == root_net(board)
        root_net_eval == Some(extract_zero_eval(board, eval))
        noised == [eval EXCEPT !.policy_logits = add_dirichlet_noise(@, settings, board, noise)]
    IN [root_net_eval |-> root_net_eval, response |-> Some([node |-> 0, eval |-> noised])]

Position_new_after_play(board, is_full_search, played_mv, net_evaluation) ==
    [board |-> play(board, played_mv), is_full_search |-> is_full_search,
     played_mv |-> played_mv, net_evaluation |-> net_evaluation]

\* a Position, without the evaluation of the tree
Position_new(board, is_full_search, played_mv, net_evaluation) ==
    [board |-> board, is_full_search |-> is_full_search, played_mv |-> played_mv,
     net_evaluation |-> net_evaluation]

record_position_if_full(positions, new_position) ==
    IF new_position.is_full_search THEN Append(positions, new_position) ELSE positions

\* positions.push(position)
record_position(positions, new_position) == Append(positions, new_position)

\* a move decision of generate_simulation up to the answer to the root
\* request, which the generator awaits.  The search runs expand_tree, which
\* gathers batch_size requests a round: with batch_size = 0 no round visits
\* anything and the search does not end.
GenSearchRoot(g) ==
    /\ prog = "server" /\ server.generators[g].pc = "game"
    /\ LET gen == server.generators[g]
           curr_board == gen.curr_board[1]
       IN /\ gen.batch_size # 0
          /\ \E is_full_search \in gen_bool(gen.settings[1].full_search_prob) :
             \E noise \in NoiseSamples(Len(available_moves(curr_board))) :
               LET target_visits == IF is_full_search THEN gen.settings[1].full_iterations
                                    ELSE gen.settings[1].part_iterations
                   root == evaluate_root(gen.settings[1], curr_board, noise)
               IN server' = [server EXCEPT !.generators[g] = [gen EXCEPT
                      !.pc = "search", !.is_full_search = is_full_search,
                      !.target_visits = Some(target_visits),
                      !.root_net_eval = root.root_net_eval, !.response = root.response]]
    /\ server_unchanged

\* the rest of the move decision: the search ends, a move is picked, the
\* position is recorded, the move is played and the tree is dropped
GenMove(g) ==
    /\ prog = "server" /\ server.generators[g].pc = "search"
    /\ LET gen == server.generators[g]
           curr_board == gen.curr_board[1]
       IN \E i \in DOMAIN available_moves(curr_board) :
               LET picked_move == available_moves(curr_board)[i]
                   net_evaluation == gen.root_net_eval[1]
                   gen1 == [gen EXCEPT
                       !.positions = record_position(@,
                           Position_new(curr_board, gen.is_full_search, picked_move,
                                        net_evaluation)),
                       !.curr_board = Some(play(curr_board, picked_move)),
                       !.played = @ + 1, !.root_net_eval = None, !.response = None]
               IN send_update(g, gen1, "FinishedMove", loop_test(gen1))
    /\ server_unchanged

\* generator_muzero_main sends the finished simulation
GenSendSimulation(g) ==
    /\ prog = "server" /\ server.generators[g].pc = "simulation"
    /\ send_update(g, [server.generators[g] EXCEPT !.curr_board = None, !.positions = <<>>,
                                                   !.played = 0, !.is_full_search = FALSE,
                                                   !.target_visits = None],
                   "FinishedSimulation", "loop")
    /\ server_unchanged

Init ==
    /\ prog \in {"kz_step", "az_step", "expand_tree", "zero_state"}
    /\ fpu_mode \in (IF prog \in {"az_step", "expand_tree"} THEN {"Fixed", "Parent"} ELSE {"Fixed"})
    /\ root_board \in StartBoards
    /\ tree = IF prog = "zero_state" THEN ZTree_new ELSE Tree_new
    /\ requests = <<>>
    /\ expected_nodes = <<>>
    /\ response = None
    /\ result = "None"
    /\ pc = IF prog \in {"expand_tree", "zero_state"} THEN "loop" ELSE "na"
    /\ target \in (IF prog \in {"expand_tree", "zero_state"} THEN 1..MaxTarget ELSE {0})
    /\ batch_size \in (IF prog \in {"expand_tree", "zero_state"} THEN 1..MaxBatch ELSE {0})
    /\ stop = FALSE
    /\ kept = None
    /\ last = [op |-> "init", node |-> 0]
    /\ hist = IF prog \in {"kz_step", "az_step"} THEN [base |-> Tree_new, applied |-> <<>>] ELSE NoHist
    /\ untracked = 0
    /\ rejected = FALSE
    /\ sttt = Board_new
    /\ sym_test = None
    /\ random_move = None
    /\ idx_range = None
    /\ chess = None /\ gpu = None /\ server = None
    /\ panic = FALSE

Next ==
    \/ StepGather
    \/ StepApply
    \/ StepApplyDuplicate
    \/ StepApplyWrongLength
    \/ StepApplyUnnormalized
    \/ ExpandTreeLoop
    \/ ExpandTreeGather
    \/ ExpandTreeEvaluate
    \/ ExpandTreeApply
    \/ ZeroBuildLoop
    \/ ZeroRun
    \/ ZeroBuildResult
    \/ ZeroBuildEvaluate
    \/ ZeroBuildEvaluateUnnormalized
    \/ ZeroCallerDrops
    \/ ZeroCallerReorders
    \/ ZeroCallerTruncates
    \/ ZeroCallerInvents
    \/ KeepMove
    \/ StopFires

Spec == Init /\ [][Next]_vars

BoardInit ==
    /\ prog = "board"
    /\ fpu_mode = "Fixed"
    /\ root_board = CHOOSE b \in StartBoards : TRUE
    /\ tree = Tree_new
    /\ requests = <<>>
    /\ expected_nodes = <<>>
    /\ response = None
    /\ result = "None"
    /\ pc = "na"
    /\ target = 0
    /\ batch_size = 0
    /\ stop = FALSE
    /\ kept = None
    /\ last = [op |-> "init", node |-> 0]
    /\ hist = NoHist
    /\ untracked = 0
    /\ rejected = FALSE
    /\ sttt \in {Board_new, LateBoard}
    /\ sym_test = None
    /\ random_move = None
    /\ idx_range = None
    /\ chess = None /\ gpu = None /\ server = None
    /\ panic = FALSE

BoardNext ==
    \/ BoardPlay
    \/ BoardRandomMove
    \/ BoardSymmetries

BoardSpec == BoardInit /\ [][BoardNext]_vars

\* the search and the board before their first step
search_idle ==
    /\ fpu_mode = "Fixed"
    /\ root_board = CHOOSE b \in StartBoards : TRUE
    /\ tree = Tree_new
    /\ requests = <<>>
    /\ expected_nodes = <<>>
    /\ response = None
    /\ result = "None"
    /\ pc = "na"
    /\ target = 0
    /\ batch_size = 0
    /\ stop = FALSE
    /\ kept = None
    /\ hist = NoHist
    /\ untracked = 0
    /\ rejected = FALSE
    /\ sttt = Board_new
    /\ sym_test = None
    /\ random_move = None
    /\ panic = FALSE

\* a board with a piece of the side to move and one of its moves
ChessInit ==
    /\ prog = "chess"
    /\ search_idle
    /\ last = [op |-> "init", node |-> 0]
    /\ \E board \in ChessBoards :
        \E mv \in PieceMoves(board.side_to_move, board.piece, board.at) :
            chess = [stage |-> "start", board |-> board, mv |-> mv, index |-> None, back |-> None]
    /\ idx_range = None
    /\ gpu = None /\ server = None

ChessNext ==
    \/ ChessMoveToIndex
    \/ ChessIndexToMove

ChessSpec == ChessInit /\ [][ChessNext]_vars

\* main of test-async with its parameters left open; the network of
\* evaluate_batch is built for max_batch_size = batch_size
GpuInit ==
    /\ prog = "gpu"
    /\ search_idle
    /\ last = [op |-> "init", node |-> 0]
    /\ \E batch \in 1..MaxGpuBatch, future_count \in 1..MaxFutures :
        gpu = [batch_size |-> batch, future_count |-> future_count, channel_capacity |-> future_count,
               job_queue |-> <<>>,
               futures |-> [fi \in 1..future_count |-> [pc |-> "loop", x |-> 0, got |-> <<>>]],
               oneshot |-> [fi \in 1..future_count |-> <<>>],
               batch_x |-> <<>>, batch_senders |-> <<>>,
               boards |-> None, evals |-> None]
    /\ idx_range = None
    /\ chess = None /\ server = None

GpuNext ==
    \/ GpuClientMap
    \/ GpuClientWake
    \/ GpuRecv
    \/ GpuBatch
    \/ GpuEvaluateBatch

GpuSpec == GpuInit /\ [][GpuNext]_vars

\* bound of the start of a range
MaxStart == 3

\* IdxRange::new is called with a start and a number of children
RangeInit ==
    /\ prog = "idx_range"
    /\ search_idle
    /\ last = [op |-> "init", node |-> 0]
    /\ chess = None /\ gpu = None /\ server = None
    /\ \E start \in 0..MaxStart, count \in 0..(U8_MAX + 2) :
         idx_range = [stage |-> "start", start |-> start, end |-> start + count, range |-> None]

IdxRangeNew ==
    /\ prog = "idx_range" /\ idx_range.stage = "start"
    /\ idx_range' = [idx_range EXCEPT !.stage = "done",
                                      !.range = IdxRange_new(idx_range.start, idx_range.end)]
    /\ panic' = (IdxRange_new(idx_range.start, idx_range.end) = None)
    /\ last' = [op |-> "IdxRange_new", node |-> 0]
    /\ UNCHANGED <<prog, fpu_mode, root_board, tree, requests, expected_nodes, response, result, pc,
                   target, batch_size, stop, kept, hist, untracked, rejected, sttt, sym_test,
                   random_move, chess, gpu, server>>

RangeNext == IdxRangeNew

RangeSpec == RangeInit /\ [][RangeNext]_vars

ServerInit ==
    /\ prog = "server"
    /\ search_idle
    /\ last = [op |-> "init", node |-> 0]
    /\ idx_range = None
    /\ chess = None /\ gpu = None
    /\ server = [main |-> "wait", first |-> "", fail |-> "", new_settings |-> 0,
                 generators |-> <<>>, cmd |-> <<>>, update |-> Channel_new,
                 collector |-> Collector_unspawned, writer |-> <<>>]

ServerNext ==
    \/ ServerStartup
    \/ CommanderNewSettings
    \/ CommanderStop
    \/ CollectorRecv
    \/ \E g \in DOMAIN server.generators : GenRecvSettings(g)
    \/ \E g \in DOMAIN server.generators : GenLoop(g)
    \/ \E g \in DOMAIN server.generators : GenSearchRoot(g)
    \/ \E g \in DOMAIN server.generators : GenMove(g)
    \/ \E g \in DOMAIN server.generators : GenSendSimulation(g)

ServerSpec == ServerInit /\ [][ServerNext]_vars

\* the drivers take their steps; the stop condition may or may not fire
DriverStep ==
    \/ ExpandTreeLoop
    \/ ExpandTreeGather
    \/ ExpandTreeEvaluate
    \/ ExpandTreeApply
    \/ ZeroBuildLoop
    \/ ZeroRun
    \/ ZeroBuildResult
    \/ ZeroBuildEvaluate

FairSpec == Spec /\ WF_vars(DriverStep)

(***************************************************************************)
(* Auxiliary notions for the properties.                                   *)
(***************************************************************************)
StepProgs == {"kz_step", "az_step", "expand_tree"}

Drivers == {"expand_tree", "zero_state"}

IsZs == prog = "zero_state"

RECURSIVE SumOver(_, _)
SumOver(f, S) == IF S = {} THEN 0 ELSE LET x == CHOOSE y \in S : TRUE IN f[x] + SumOver(f, S \ {x})

(***************************************************************************)
(* C1: in every state of a search on the step engine no node has a         *)
(* negative virtual_visits (the counter never underflows: the assertion    *)
(* of tree_propagate_values holds), and once every yielded request has     *)
(* been applied, virtual_visits is 0 on every node.                        *)
(***************************************************************************)
C1_VirtualVisits ==
    prog \in StepProgs =>
        /\ ~panic
        /\ \A n \in Nodes(tree) :
            /\ NodeAt(tree, n).virtual_visits >= 0
            /\ (requests = <<>> => NodeAt(tree, n).virtual_visits = 0)

\* a drained tree in which requests for inner nodes have been applied
C1_Witness ==
    /\ prog \in StepProgs
    /\ requests = <<>>
    /\ last.op = "apply" /\ last.node # 0
    /\ NodeAt(tree, 0).complete_visits >= 3

(***************************************************************************)
(* C2 (as claimed): when a driver returns without an external stop, the    *)
(* root has exactly N visits.                                              *)
(***************************************************************************)
RootVisits == IF prog = "zero_state" THEN NodeAt(tree, 0).visits ELSE NodeAt(tree, 0).complete_visits

C2_Orig_ExactlyN ==
    (prog \in Drivers /\ pc = "returned" /\ ~stop) => RootVisits = target

(***************************************************************************)
(* C2 (amended): when a driver returns without an external stop, the root  *)
(* has exactly N visits under ZeroState (zero_build_tree) and at least N   *)
(* complete visits under expand_tree, which polls the stop condition once  *)
(* per batch and may overshoot.                                            *)
(***************************************************************************)
C2_VisitsOnReturn ==
    (prog \in Drivers /\ pc = "returned" /\ ~stop) =>
        IF prog = "zero_state" THEN RootVisits = target ELSE RootVisits >= target

C2_Witness ==
    /\ prog = "zero_state" /\ pc = "returned" /\ ~stop
    /\ target = MaxTarget /\ batch_size = MaxBatch
    /\ RootVisits = target

(***************************************************************************)
(* C3: a driver started on a board that is not done eventually returns,    *)
(* stated for the case the claim singles out: once the tree is exhausted   *)
(* (every board that is not done has been expanded, so that a gather can   *)
(* only reach boards that are done) the driver returns.  In such a state   *)
(* the inner loop of expand_tree is followed beyond MaxVisits as well.      *)
(***************************************************************************)
C3_Terminates ==
    (prog \in Drivers /\ TreeExhausted(tree, root_board, IsZs))
        ~> (pc \in {"returned", "kept"} \/ panic)

(***************************************************************************)
(* C4: whenever a driver has returned, no request is pending and no node   *)
(* of the tree has children without an applied network evaluation.         *)
(***************************************************************************)
NetOf(node) == IF prog = "zero_state" THEN node.net_wdl ELSE node.net_values

C4_NoDroppedRequests ==
    (prog \in Drivers /\ pc = "returned") =>
        /\ expected_nodes = <<>>
        /\ (prog = "expand_tree" => requests = <<>>)
        /\ \A n \in Nodes(tree) : NodeAt(tree, n).children # None => NetOf(NodeAt(tree, n)) # None

(***************************************************************************)
(* C5: in a tree whose root has been expanded and evaluated, the complete  *)
(* visits of the root's children sum to the root's complete visits minus   *)
(* one; under ZeroState, where a visit is counted when it is gathered,     *)
(* this holds as soon as the root has children, and it holds for the tree  *)
(* returned by keep_move.                                                  *)
(***************************************************************************)
ChildVisitSum(t, zs) ==
    LET r == NodeAt(t, 0).children[1]
    IN  SumOver([c \in IdxRange_set(r) |->
                    IF zs THEN NodeAt(t, c).visits ELSE NodeAt(t, c).complete_visits],
                IdxRange_set(r))

C5_RootVisitSum ==
    /\ (prog \in StepProgs /\ NodeAt(tree, 0).net_values # None)
          => ChildVisitSum(tree, FALSE) = NodeAt(tree, 0).complete_visits - 1
    /\ (prog = "zero_state" /\ NodeAt(tree, 0).children # None)
          => ChildVisitSum(tree, TRUE) = NodeAt(tree, 0).visits - 1
    /\ (kept # None /\ kept[1].kind = "Tree" /\ NodeAt(kept[1].nodes, 0).children # None)
          => ChildVisitSum(kept[1].nodes, TRUE) = NodeAt(kept[1].nodes, 0).visits - 1

\* a reused tree whose root has visited children
C5_Witness ==
    /\ kept # None /\ kept[1].kind = "Tree"
    /\ NodeAt(kept[1].nodes, 0).children # None
    /\ NodeAt(kept[1].nodes, 0).visits >= 2

(***************************************************************************)
(* C6: no step of a search resets or replaces the children or the network  *)
(* values of a node once they are present.                                 *)
(***************************************************************************)
C6_ExpansionExclusive ==
    [][\A n \in Nodes(tree) :
          /\ NodeAt(tree, n).children # None
                => NodeAt(tree', n).children = NodeAt(tree, n).children
          /\ NetOf(NodeAt(tree, n)) # None
                => (IF prog = "zero_state" THEN NodeAt(tree', n).net_wdl
                    ELSE NodeAt(tree', n).net_values) = NetOf(NodeAt(tree, n))]_vars

\* an evaluated node has been passed by a later gather that expanded a child
C6_Witness ==
    /\ prog \in StepProgs
    /\ last.op = "gather_expand" /\ last.node # 0
    /\ NodeAt(tree, 0).net_values # None

(***************************************************************************)
(* C7: the responses of a batch may be applied in any order: the tree      *)
(* reached by applying responses in the order chosen equals the tree       *)
(* reached by applying the same responses in the order of their nodes.     *)
(***************************************************************************)
RECURSIVE SortByNode(_)
SortByNode(resps) ==
    IF resps = <<>> THEN <<>>
    ELSE LET m == SetMin({resps[k].node : k \in 1..Len(resps)})
             i == CHOOSE k \in 1..Len(resps) : resps[k].node = m
         IN  <<resps[i]>> \o SortByNode(RemoveAt(resps, i))

RECURSIVE ApplyAll(_, _, _)
ApplyAll(flavor, t, resps) ==
    IF resps = <<>> THEN t
    ELSE ApplyAll(flavor, zero_step_apply(flavor, t, resps[1]).tree, Tail(resps))

C7_ApplyOrderIrrelevant ==
    (prog \in {"kz_step", "az_step"} /\ ~panic)
        => tree = ApplyAll(Flavor, hist.base, SortByNode(hist.applied))

\* a batch of two, applied against the order of the nodes
C7_Witness ==
    /\ prog \in {"kz_step", "az_step"}
    /\ requests = <<>>
    /\ Len(hist.applied) >= 2
    /\ hist.applied[1].node > hist.applied[2].node
    /\ hist.applied[1].eval.values # hist.applied[2].eval.values

(***************************************************************************)
(* C8: applying a response for node n adds 1 to complete_visits and takes  *)
(* 1 from virtual_visits on every node from n up to the root, and leaves   *)
(* the counters and summed values of every other node unchanged.           *)
(***************************************************************************)
C8_ApplyFrame ==
    [][(prog \in StepProgs /\ last'.op = "apply" /\ ~panic') =>
          /\ Len(tree') = Len(tree)
          /\ \A n \in Nodes(tree) :
                IF n \in ChainSet(tree, last'.node, FALSE)
                THEN /\ NodeAt(tree', n).complete_visits = NodeAt(tree, n).complete_visits + 1
                     /\ NodeAt(tree', n).virtual_visits = NodeAt(tree, n).virtual_visits - 1
                ELSE /\ NodeAt(tree', n).complete_visits = NodeAt(tree, n).complete_visits
                     /\ NodeAt(tree', n).virtual_visits = NodeAt(tree, n).virtual_visits
                     /\ NodeAt(tree', n).sum_values = NodeAt(tree, n).sum_values]_vars

\* a response for a node two plies below the root has been applied
C8_Witness ==
    /\ prog \in StepProgs
    /\ last.op = "apply"
    /\ Len(Chain(tree, last.node, FALSE)) >= 3
    /\ Len(tree) > Len(Chain(tree, last.node, FALSE))

(***************************************************************************)
(* C9.  TerminalWdl is the outcome at a node whose board is done, as a     *)
(* WDL of the player to move there; Delta(n) is what a step added to the   *)
(* summed WDL of node n.                                                   *)
(***************************************************************************)
PovProgs == {"az_step", "expand_tree", "zero_state"}

SumWdl(node) == IF IsZs THEN node.total_wdl ELSE node.sum_values.wdl

TerminalWdl(n) ==
    LET b == BoardAt(tree, root_board, n, IsZs)
    IN  to_wdl(pov(outcome(b)[1], next_player(b)))

\* C9 (as claimed): the terminal node gets the value of its player to move
\* unflipped, its parent the flipped value, and so on up to the root
C9_Orig_WinAtOwnNode ==
    [][(prog \in PovProgs /\ last'.op = "gather_terminal" /\ ~panic') =>
          LET c == Chain(tree, last'.node, IsZs)
          IN  \A k \in 1..Len(c) :
                WDL_sub(SumWdl(NodeAt(tree', c[k])), SumWdl(NodeAt(tree, c[k])))
                    = IF k % 2 = 1 THEN TerminalWdl(last'.node)
                      ELSE WDL_flip(TerminalWdl(last'.node))]_vars

(***************************************************************************)
(* C9 (amended): the perspective alternates on each hop, starting with a   *)
(* flip: a win for the player to move at the depth-d node is added to      *)
(* that node as a loss, to its parent as a win, to its grandparent as a    *)
(* loss, and so on; a node's sums are from the perspective of the player   *)
(* who moved into the node.                                                *)
(***************************************************************************)
C9_FlipFirst ==
    [][(prog \in PovProgs /\ last'.op = "gather_terminal" /\ ~panic') =>
          LET c == Chain(tree, last'.node, IsZs)
          IN  \A k \in 1..Len(c) :
                WDL_sub(SumWdl(NodeAt(tree', c[k])), SumWdl(NodeAt(tree, c[k])))
                    = IF k % 2 = 1 THEN WDL_flip(TerminalWdl(last'.node))
                      ELSE TerminalWdl(last'.node)]_vars

\* a decided game found two plies below the root
C9_Witness ==
    /\ prog \in PovProgs
    /\ last.op = "gather_terminal"
    /\ Len(Chain(tree, last.node, IsZs)) >= 3
    /\ outcome(BoardAt(tree, root_board, last.node, IsZs)) # Some("Draw")

(***************************************************************************)
(* C10: a gather that reaches a board that is done yields no request,      *)
(* adds 1 to complete_visits of every node on the selected path, leaves    *)
(* every virtual_visits as before, allocates no children and leaves the    *)
(* length of the arena unchanged.                                          *)
(***************************************************************************)
C10_TerminalGather ==
    [][(prog \in StepProgs /\ last'.op = "gather_terminal" /\ ~panic') =>
          /\ Len(tree') = Len(tree)
          /\ requests' = requests
          /\ \A n \in Nodes(tree) :
                /\ NodeAt(tree', n).children = NodeAt(tree, n).children
                /\ NodeAt(tree', n).virtual_visits = NodeAt(tree, n).virtual_visits
                /\ NodeAt(tree', n).complete_visits =
                      NodeAt(tree, n).complete_visits
                          + (IF n \in ChainSet(tree, last'.node, FALSE) THEN 1 ELSE 0)]_vars

\* a terminal board two plies below the root, reached while a request is pending
C10_Witness ==
    /\ prog \in StepProgs
    /\ last.op = "gather_terminal"
    /\ Len(Chain(tree, last.node, FALSE)) >= 3
    /\ requests # <<>>

(***************************************************************************)
(* C11 (as claimed): a gather that ends in an expansion changes no node's  *)
(* summed values and no node's visit count, in the step engine and in      *)
(* ZeroState alike.                                                        *)
(***************************************************************************)
VisitsOf(node) == IF IsZs THEN node.visits ELSE node.complete_visits

C11_Orig_NoPenalty ==
    [][(last'.op = "gather_expand" /\ ~panic') =>
          \A n \in Nodes(tree) :
              /\ SumWdl(NodeAt(tree', n)) = SumWdl(NodeAt(tree, n))
              /\ VisitsOf(NodeAt(tree', n)) = VisitsOf(NodeAt(tree, n))]_vars

(***************************************************************************)
(* C11 (amended): in the step engine (zero_step_gather) a gather that ends *)
(* in an expansion of node n adds 1 to virtual_visits on the path to n,    *)
(* appends one child per legal move of n's board at the end of the arena   *)
(* (parent n, prior 1.0, in move order), records that range on n, yields   *)
(* a request for n and changes nothing else.  In ZeroState the walk that   *)
(* expands n does apply a virtual penalty: it adds 1 to visits and adds    *)
(* VIRTUAL_WDL (a loss, flipped on each hop) to total_wdl on the path.     *)
(***************************************************************************)
C11_ExpansionFrame ==
    [][(last'.op = "gather_expand" /\ ~panic') =>
          LET n == last'.node
              c == Chain(tree, n, IsZs)
              board == BoardAt(tree, root_board, n, IsZs)
              moves == available_moves(board)
              onpath(m) == \E k \in 1..Len(c) : c[k] = m
          IN  /\ Len(tree') = Len(tree) + Len(moves)
              /\ NodeAt(tree, n).children = None
              /\ NodeAt(tree', n).children = Some([start |-> Len(tree), length |-> Len(moves)])
              /\ \A m \in Nodes(tree) \ {n} : NodeAt(tree', m).children = NodeAt(tree, m).children
              /\ \A m \in Nodes(tree) :
                    /\ NodeAt(tree', m).parent = NodeAt(tree, m).parent
                    /\ NodeAt(tree', m).last_move = NodeAt(tree, m).last_move
                    /\ NodeAt(tree', m).net_policy = NodeAt(tree, m).net_policy
                    /\ NetOf(NodeAt(tree', m)) = NetOf(NodeAt(tree, m))
              /\ IF IsZs
                 THEN /\ \A i \in 1..Len(moves) :
                            NodeAt(tree', Len(tree) + i - 1) = ZNode_new(n, Some(moves[i]), PolicyDen)
                      /\ requests' = Append(requests, SubRequest(board, n, gen_symmetry))
                      /\ \A m \in Nodes(tree) \ ChainSet(tree, n, TRUE) :
                            /\ NodeAt(tree', m).visits = NodeAt(tree, m).visits
                            /\ NodeAt(tree', m).total_wdl = NodeAt(tree, m).total_wdl
                      /\ \A k \in 1..Len(c) :
                            /\ NodeAt(tree', c[k]).visits = NodeAt(tree, c[k]).visits + 1
                            /\ WDL_sub(NodeAt(tree', c[k]).total_wdl, NodeAt(tree, c[k]).total_wdl)
                                  = IF k % 2 = 1 THEN WDL_flip(VIRTUAL_WDL) ELSE VIRTUAL_WDL
                 ELSE /\ \A i \in 1..Len(moves) :
                            NodeAt(tree', Len(tree) + i - 1)
                                = Node_new(Some(n), Some(moves[i]), PolicyDen)
                      /\ requests' = Append(requests, ZeroRequest(n, board))
                      /\ \A m \in Nodes(tree) :
                            /\ NodeAt(tree', m).sum_values = NodeAt(tree, m).sum_values
                            /\ NodeAt(tree', m).complete_visits = NodeAt(tree, m).complete_visits
                            /\ NodeAt(tree', m).virtual_visits =
                                  NodeAt(tree, m).virtual_visits + (IF onpath(m) THEN 1 ELSE 0)]_vars

\* the step engine has expanded a node with two legal moves below the root
C11_Witness ==
    /\ prog \in StepProgs
    /\ last.op = "gather_expand"
    /\ Len(Chain(tree, last.node, FALSE)) >= 2
    /\ NodeAt(tree, last.node).children # None
    /\ NodeAt(tree, last.node).children[1].length = 2


(***************************************************************************)
(* C12.  The selections made by a gather, recomputed from the tree before  *)
(* the gather: RootPath is the selected path from the root down, FpuBelow  *)
(* the first-play urgency handed to the children of its k-th node, and     *)
(* HopMax the children of the k-th node with a maximal PUCT score at the   *)
(* time of the selection.                                                  *)
(***************************************************************************)
RootPath(t, n, zs) ==
    LET c == Chain(t, n, zs) IN [k \in 1..Len(c) |-> c[Len(c) + 1 - k]]

RECURSIVE FpuBelow(_, _, _)
FpuBelow(t, path, k) ==
    LET node == NodeAt(t, path[k])
        fpu1 == IF node.complete_visits > 0
                THEN [wdl |-> node.sum_values.wdl, den |-> node.complete_visits]
                ELSE IF k = 1 THEN FPU_DRAW ELSE FpuBelow(t, path, k - 1)
    IN  [wdl |-> WDL_flip(fpu1.wdl), den |-> fpu1.den]

HopMax(path, k) ==
    LET p == path[k]
        cands == IdxRange_set(NodeAt(tree, p).children[1])
    IN  IF prog = "zero_state"
        THEN MaxChildren(cands, [c \in cands |-> Node_uct(NodeAt(tree, c))], NodeAt(tree, p).visits)
        ELSE IF prog = "kz_step"
        THEN MaxChildren(cands,
                         [c \in cands |->
                             kz_uct(NodeAt(tree, c),
                                    next_player(BoardAt(tree, root_board, p, FALSE)))],
                         total_visits(NodeAt(tree, p)) + 1)
        ELSE MaxChildren(cands,
                         [c \in cands |->
                             az_uct(NodeAt(tree, c),
                                    FpuMode_select(fpu_mode, FpuBelow(tree, path, k)))],
                         total_visits(NodeAt(tree, p)) + 1)

IsGather(l) == l.op \in {"gather_expand", "gather_terminal"}

\* C12 (as claimed): every selection of a gather takes the child with the
\* maximal PUCT score and, among several maximal ones, the lowest index
C12_Orig_LowestIndex ==
    [][(IsGather(last') /\ ~panic') =>
          LET path == RootPath(tree, last'.node, IsZs)
          IN  \A k \in 1..(Len(path) - 1) : path[k + 1] = SetMin(HopMax(path, k))]_vars

(***************************************************************************)
(* C12 (amended): every selection of a gather takes a child with the       *)
(* maximal PUCT score.  Among several maximal children the alpha-zero step *)
(* engine and ZeroState take the one with the highest index (the last one, *)
(* as Iterator::max_by_key does), so that there the selection is a         *)
(* function of the tree; kz-core takes any of them, as its rng decides.    *)
(***************************************************************************)
C12_Selection ==
    [][(IsGather(last') /\ ~panic') =>
          LET path == RootPath(tree, last'.node, IsZs)
          IN  \A k \in 1..(Len(path) - 1) :
                /\ path[k + 1] \in HopMax(path, k)
                /\ prog # "kz_step" => path[k + 1] = SetMax(HopMax(path, k))]_vars

\* right after the expansion of a root with two legal moves, before its
\* response is applied, a second gather has gone to the last child
C12_Witness ==
    /\ prog = "az_step"
    /\ last.op = "gather_expand" /\ last.node = 2
    /\ NodeAt(tree, 0).net_values = None
    /\ NodeAt(tree, 0).children = Some([start |-> 1, length |-> 2])
    /\ total_visits(NodeAt(tree, 1)) = 0


(***************************************************************************)
(* C13: a response for a node whose net_values are present is refused by   *)
(* zero_step_apply before anything is written: the tree is left as it was, *)
(* no value is overwritten and no second visit is propagated.              *)
(***************************************************************************)
C13_RejectsDuplicate ==
    [][last'.op = "apply_duplicate" => (rejected' /\ tree' = tree)]_vars

\* the response of a node below the root has been handed in twice
C13_Witness ==
    /\ last.op = "apply_duplicate" /\ last.node # 0
    /\ rejected
    /\ NodeAt(tree, last.node).net_values # None

(***************************************************************************)
(* C14: zero_step_apply refuses a response whose policy length differs     *)
(* from the number of children of the target node; when a response is      *)
(* applied, its policy has one entry per child, the i-th child of the      *)
(* node gets the i-th entry as net_policy and the net_policy of every      *)
(* other node stays as it was.                                             *)
(***************************************************************************)
LastApplied(h) == h.applied[Len(h.applied)]

C14_PolicyLength ==
    [][/\ last'.op = "apply_wrong_length" => rejected'
       /\ (prog \in {"kz_step", "az_step"} /\ last'.op = "apply" /\ ~panic') =>
             LET resp == LastApplied(hist')
                 ch == NodeAt(tree, resp.node).children[1]
             IN  /\ Len(resp.eval.policy) = ch.length
                 /\ \A i \in 1..ch.length :
                       NodeAt(tree', ch.start + i - 1).net_policy = resp.eval.policy[i]
                 /\ \A m \in Nodes(tree) \ IdxRange_set(ch) :
                       NodeAt(tree', m).net_policy = NodeAt(tree, m).net_policy]_vars

\* a policy with one entry too many has been refused
C14_Witness ==
    /\ last.op = "apply_wrong_length" /\ rejected
    /\ Len(LastApplied(hist).eval.policy) > NodeAt(tree, last.node).children[1].length



(***************************************************************************)
(* C15: shape of the arena.                                                *)
(***************************************************************************)
\* the children range of node n as a set of indices, empty without children
RangeOf(t, n) == IF NodeAt(t, n).children = None THEN {} ELSE IdxRange_set(NodeAt(t, n).children[1])

\* t is a proper tree: node 0 is the root, every range lies strictly after
\* its node and inside the arena, its members name the node as parent, and
\* every other node lies in exactly one range
ProperTree(t, zs) ==
    /\ Len(t) >= 1
    /\ ParentOf(t, 0, zs) = None
    /\ \A n \in Nodes(t) : NodeAt(t, n).children # None =>
          LET r == NodeAt(t, n).children[1]
          IN  /\ r.start > n
              /\ r.start + r.length <= Len(t)
              /\ \A c \in IdxRange_set(r) : ParentOf(t, c, zs) = Some(n)
    /\ \A n, m \in Nodes(t) : n # m => RangeOf(t, n) \cap RangeOf(t, m) = {}
    /\ \A c \in Nodes(t) \ {0} : \E n \in Nodes(t) : c \in RangeOf(t, n)

\* a step appends at most: the existing nodes keep their parent and move
AppendOnly ==
    /\ Len(tree') >= Len(tree)
    /\ \A n \in Nodes(tree) :
          /\ NodeAt(tree', n).parent = NodeAt(tree, n).parent
          /\ NodeAt(tree', n).last_move = NodeAt(tree, n).last_move

\* C15: every reachable tree is a proper tree (node 0 is the root without a
\* parent, every children range lies after its node and inside the arena,
\* its members have the node as parent, ranges are disjoint); the tree
\* returned by keep_move is a reachable tree as well
C15_Orig_EveryTree ==
    /\ ProperTree(tree, IsZs)
    /\ (kept # None /\ kept[1].kind = "Tree") => ProperTree(kept[1].nodes, TRUE)

\* C15, the part that holds: the tree of a running search (built by
\* Tree::new, gather and apply) is always a proper tree, and gather and
\* apply only append, so the index, parent and last_move of an existing
\* node never change
C15_ProperTree == [](ProperTree(tree, IsZs)) /\ [][AppendOnly]_vars

\* two nodes have been expanded and a response has just been applied
C15_Witness ==
    /\ prog \in StepProgs
    /\ last.op = "apply"
    /\ Cardinality({n \in Nodes(tree) : NodeAt(tree, n).children # None}) >= 2
    /\ ProperTree(tree, FALSE)


(***************************************************************************)
(* C16: the two results of keep_move.                                      *)
(***************************************************************************)
\* what keep_move returns for move mv, from the game rules alone
KeepExpected(mv) ==
    LET new_root_board == play(root_board, mv)
    IN  IF outcome(new_root_board) # None
        THEN /\ kept = Some([kind |-> "Done", outcome |-> outcome(new_root_board)[1]])
             /\ ~panic
        ELSE /\ kept # None
             /\ kept[1].kind = "Tree"
             /\ kept[1].root_board = new_root_board
             /\ ~panic

\* C16 as stated: keep_move returns Done with the outcome for a move to a
\* terminal board and a tree rooted at the board after the move otherwise,
\* whatever tree it is called on
C16_Orig_AnyTree == last.op = "keep_move" => KeepExpected(last.mv)

\* C16 (amended): on a tree with more than one node, keep_move with a move
\* to a terminal board returns KeepResult::Done with that board's outcome
\* and builds no tree, and with a move to a non-terminal board it returns
\* KeepResult::Tree whose root board is the old root board with the move
\* played; on a tree holding only the root it panics for every move
C16_KeepResult ==
    last.op = "keep_move" =>
        IF Len(tree) > 1 THEN KeepExpected(last.mv) ELSE panic /\ kept = None

\* keep_move was called on a grown tree with a move that ends the game
C16_Witness ==
    /\ last.op = "keep_move"
    /\ Len(tree) > 1
    /\ outcome(play(root_board, last.mv)) # None
    /\ kept # None /\ kept[1].kind = "Done"


(***************************************************************************)
(* C17: the tree returned by keep_move against the old subtree.            *)
(***************************************************************************)
\* the children of node n in index order
ChildSeq(t, n) ==
    IF NodeAt(t, n).children = None THEN <<>> ELSE IdxRange_iter(NodeAt(t, n).children[1])

\* the nodes below the nodes of order, breadth first: order[i] is visited
\* at step i and its children join the end of the queue
RECURSIVE BfsOrder(_, _, _)
BfsOrder(t, order, i) ==
    IF i > Len(order) THEN order ELSE BfsOrder(t, order \o ChildSeq(t, order[i]), i + 1)

\* the nodes of the subtree of t under node n
Subtree(t, n) == {m \in Nodes(t) : n \in ChainSet(t, m, TRUE)}

\* the fields a copy keeps
SameData(a, b) ==
    /\ a.visits = b.visits
    /\ a.total_wdl = b.total_wdl
    /\ a.net_policy = b.net_policy
    /\ a.net_wdl = b.net_wdl
    /\ a.last_move = b.last_move

\* C17: for a move to a non-terminal board the tree returned by keep_move
\* is the breadth-first copy of the old subtree under the chosen child: as
\* many nodes as the subtree, node 0 the copy of the child, every children
\* range naming the copies of the old children in their order, every copy
\* with the old visits, value sum, prior, net evaluation and last move
C17_BreadthFirstCopy ==
    (last.op = "keep_move" /\ kept # None /\ kept[1].kind = "Tree") =>
        LET new_nodes == kept[1].nodes
            picked == CHOOSE c \in RangeOf(tree, 0) : NodeAt(tree, c).last_move = Some(last.mv)
            order == BfsOrder(tree, <<picked>>, 1)
        IN  /\ Len(new_nodes) = Cardinality(Subtree(tree, picked))
            /\ Len(order) = Len(new_nodes)
            /\ order[1] = picked
            /\ \A i \in 1..Len(new_nodes) :
                  LET new == new_nodes[i]
                      old == NodeAt(tree, order[i])
                  IN  /\ SameData(new, old)
                      /\ (new.children = None) <=> (old.children = None)
                      /\ new.children # None =>
                            /\ new.children[1].length = old.children[1].length
                            /\ \A k \in 0..(old.children[1].length - 1) :
                                  order[new.children[1].start + k + 1] = old.children[1].start + k

\* a subtree was kept in which the first child of the new root has a child
\* of its own and a sibling: breadth first and depth first order differ
C17_Witness ==
    /\ last.op = "keep_move" /\ kept # None /\ kept[1].kind = "Tree"
    /\ Len(kept[1].nodes) >= 4
    /\ kept[1].nodes[1].children # None /\ kept[1].nodes[1].children[1].length = 2
    /\ kept[1].nodes[2].children # None
    /\ kept[1].nodes[1].visits > 0



(***************************************************************************)
(* C19: the priors of the children of an applied node sum to 1.            *)
(***************************************************************************)
\* the priors of the children of node n, in child order
ChildPolicies(t, n) == [i \in 1..Len(ChildSeq(t, n)) |-> NodeAt(t, ChildSeq(t, n)[i]).net_policy]

\* nodes with children whose response has been applied
AppliedNodes(t, zs) ==
    {n \in Nodes(t) : NodeAt(t, n).children # None
                        /\ (IF zs THEN NodeAt(t, n).net_wdl ELSE NodeAt(t, n).net_values) # None}

\* the priors under every applied node sum to 1 within the tolerance
PolicySumsOk(t, zs) == \A n \in AppliedNodes(t, zs) : policy_sum_ok(ChildPolicies(t, n))

\* C19 as stated: in every tree the priors of the children of an applied
\* node sum to 1 within 1e-3, because a response whose policy sum is off by
\* 0.001 or more is never written into the tree
C19_Orig_EveryEngine == (~panic /\ ~rejected) => PolicySumsOk(tree, IsZs)

\* ZeroState::apply_eval meets a policy whose sum is off: it panics and the
\* priors of the children stay as they were
ZeroStateRefuses ==
    (IsZs /\ pc = "loop" /\ ~stop /\ response # None /\ pc' = "run") =>
        \A i \in 1..Len(response[1]) :
            ~policy_sum_ok(response[1][i].evaluation.policy) =>
                /\ panic'
                /\ \A c \in RangeOf(tree, response[1][i].request.curr_node) :
                      NodeAt(tree', c).net_policy = NodeAt(tree, c).net_policy

\* zero_step_apply is handed a policy whose sum is off: it goes through and
\* the children carry the entries of that policy
StepEngineWrites ==
    last'.op = "apply_unnormalized" =>
        /\ ~rejected' /\ ~panic'
        /\ ~policy_sum_ok(LastApplied(hist').eval.policy)
        /\ ChildPolicies(tree', last'.node) = LastApplied(hist').eval.policy

\* C19 (amended): ZeroState asserts the sum on every evaluation it applies,
\* so there a policy whose sum is off by 0.001 or more is never written and
\* the priors under every applied node sum to 1 within 1e-3; the step
\* engines do not check the sum in zero_step_apply: a policy whose sum is
\* off is written as it is, and the priors under an applied node sum to 1
\* only as long as every response handed in is normalised
C19_PolicySum ==
    /\ []((~panic /\ ~rejected /\ ~unchecked) => PolicySumsOk(tree, IsZs))
    /\ [][ZeroStateRefuses /\ StepEngineWrites]_vars

\* ZeroState has refused a batch with a policy whose sum is off after it
\* had applied the evaluation of another node
C19_Witness ==
    /\ IsZs /\ panic /\ last.op = "loop"
    /\ \E n, m \in AppliedNodes(tree, TRUE) :
          /\ n # m
          /\ ~policy_sum_ok(ChildPolicies(tree, n))
          /\ policy_sum_ok(ChildPolicies(tree, m))
          /\ ChildPolicies(tree, m) # [i \in 1..Len(ChildSeq(tree, m)) |-> PolicyDen]
(***************************************************************************)
(* C18: the priors read through a symmetry.                                *)
(***************************************************************************)
\* C18: for a policy evaluated on board.map(sym), the child of the i-th
\* legal move mv_i of the board receives the entry at the position of
\* map_move(sym, mv_i) in the legal moves of board.map(sym); under the
\* identity child i receives entry i; every entry is read by exactly one
\* child
C18_SymmetryPolicy ==
    (last.op = "symmetries" /\ sym_test[1].hot > 0) =>
        LET sym == sym_test[1].sym
            hot == sym_test[1].hot
            moves == Board_available_moves(sttt)
            sym_moves == Board_available_moves(sym_test[1].mapped)
            n == Len(moves)
        IN  /\ Len(sym_moves) = n
            /\ sym_test[1].priors # None
            /\ Len(sym_test[1].priors[1]) = n
            /\ \A i \in 1..n :
                  sym_test[1].priors[1][i] =
                      IF sym_moves[hot] = Symmetry_map_coord(sym, moves[i]) THEN PolicyDen ELSE 0
            /\ sym = Symmetry_default => sym_test[1].priors[1] = OneHot(n, hot)
            /\ \A j \in 1..n :
                  Cardinality({i \in 1..n : Symmetry_map_coord(sym, moves[i]) = sym_moves[j]}) = 1

\* a symmetry that moves the entry: the child that receives the weight is
\* not the child at the position of the entry
C18_Witness ==
    /\ last.op = "symmetries" /\ sym_test[1].hot > 0
    /\ sym_test[1].sym # Symmetry_default
    /\ count_tiles(sttt) >= 2
    /\ sym_test[1].priors # None
    /\ sym_test[1].priors[1][sym_test[1].hot] = 0
    /\ \E i \in 1..Len(sym_test[1].priors[1]) : sym_test[1].priors[1][i] = PolicyDen

(***************************************************************************)
(* C20: a symmetry and its inverse.                                        *)
(***************************************************************************)
\* C20: for every board reached by legal play from the empty board and each
\* of the 8 symmetries s, board.map_symmetry(s).map_symmetry(s.inverse())
\* equals the board in all fields, and the identity maps the board to an
\* equal board
C20_SymmetryInvolution ==
    last.op = "symmetries" =>
        /\ sym_test[1].back = sttt
        /\ sym_test[1].sym = Symmetry_default => sym_test[1].mapped = sttt

\* what does hold: the round trip restores every field but main_grid, which
\* map_symmetry sets to 0
C20_UpToMainGrid ==
    last.op = "symmetries" =>
        /\ sym_test[1].back = [sttt EXCEPT !.main_grid = {}]
        /\ sym_test[1].sym = Symmetry_default => sym_test[1].mapped = [sttt EXCEPT !.main_grid = {}]


(***************************************************************************)
(* C21: the available moves through a symmetry.                            *)
(***************************************************************************)
SeqSet(s) == {s[i] : i \in 1..Len(s)}

\* C21: for every board reached by legal play and each of the 8 symmetries
\* s, the available moves of board.map_symmetry(s) are, as a set and in
\* number, the images under s.map_coord of the available moves of the board
C21_MovesPreserved ==
    last.op = "symmetries" =>
        LET moves == Board_available_moves(sttt)
            actual_moves == Board_available_moves(sym_test[1].mapped)
        IN  /\ SeqSet(actual_moves) = {Symmetry_map_coord(sym_test[1].sym, c) : c \in SeqSet(moves)}
            /\ Len(actual_moves) = Len(moves)

\* a symmetry that moves the set of available moves of a board in play,
\* after a move that restricts the next one to a single macro
C21_Witness ==
    /\ last.op = "symmetries"
    /\ sym_test[1].sym.transpose
    /\ count_tiles(sttt) >= 2
    /\ sttt.macro_mask # FULL_MASK
    /\ Board_available_moves(sttt) # <<>>
    /\ SeqSet(Board_available_moves(sym_test[1].mapped)) # SeqSet(Board_available_moves(sttt))


(***************************************************************************)
(* C22: the policy index of a chess move and back.                         *)
(***************************************************************************)
\* C22: for every legal move m (either side to move; pawn pushes, captures,
\* queen promotions, the three under-promotions, knight moves, castling)
\* move_to_index returns an index below 73 * 64, index_to_move on that
\* index returns m, and no other move of the piece has the same index
C22_RoundTrip ==
    /\ chess # None /\ chess.stage \in {"encoded", "decoded"} =>
          /\ chess.index # None
          /\ chess.index[1] \in 0..(73 * 64 - 1)
          /\ \A m \in PieceMoves(chess.board.side_to_move, chess.board.piece, chess.board.at) :
                m # chess.mv => move_to_index(chess.board, m) # chess.index
    /\ chess # None /\ chess.stage = "decoded" => chess.back = Some(chess.mv)

\* a black pawn under-promotes with a capture, and the move is read back
C22_Witness ==
    /\ chess # None /\ chess.stage = "decoded"
    /\ chess.board.side_to_move = "Black" /\ chess.board.piece = "Pawn"
    /\ chess.mv.promotion = Some("Knight")
    /\ chess.mv.dest.file # chess.mv.source.file
    /\ chess.back = Some(chess.mv)


(***************************************************************************)
(* C23, C24: the batched executor and its clients.                         *)
(***************************************************************************)
\* the executor waits in recv() with a batch that is not full while every
\* future awaits its answer: no step is left
Starved ==
    /\ \A fi \in 1..gpu.future_count : gpu.futures[fi].pc = "await" /\ gpu.oneshot[fi] = <<>>
    /\ gpu.job_queue = <<>>
    /\ Len(gpu.batch_x) < gpu.batch_size

C23_BlocksOnlyOnFirst ==
    gpu # None => (gpu.job_queue = <<>> /\ Len(gpu.batch_x) < gpu.batch_size => gpu.batch_x = <<>>)

\* C24: in every interleaving each future receives, job after job, exactly
\* the result of its own input (x + 1 for its x-th job), no answer waits on
\* a oneshot channel but the one for the job awaited, and evaluate_batch
\* returns one output per board handed in, the output of that board, none
\* of a padding slot
C24_OwnResponse ==
    gpu # None =>
        /\ \A fi \in 1..gpu.future_count :
              /\ gpu.futures[fi].got = [k \in 1..gpu.futures[fi].x |-> net(k - 1)]
              /\ Len(gpu.oneshot[fi]) <= (IF gpu.futures[fi].pc = "await" THEN 1 ELSE 0)
              /\ \A k \in 1..Len(gpu.oneshot[fi]) : gpu.oneshot[fi][k] = net(gpu.futures[fi].x)
        /\ gpu.boards # None =>
              /\ gpu.evals # None
              /\ Len(gpu.evals[1]) = Len(gpu.boards[1])
              /\ \A i \in 1..Len(gpu.boards[1]) : gpu.evals[1][i] = net(gpu.boards[1][i])
              /\ \A i \in 1..Len(gpu.evals[1]) : gpu.evals[1][i] # NAN

\* a batch of two jobs with different inputs has been answered: one future
\* holds the answer to its second job, another the answer to its first
C24_Witness ==
    /\ gpu # None /\ last.op = "batch" /\ gpu.batch_size = 2
    /\ \E f1, f2 \in 1..gpu.future_count :
        /\ gpu.oneshot[f1] = <<1>> /\ gpu.futures[f1].x = 0
        /\ gpu.oneshot[f2] = <<2>> /\ gpu.futures[f2].x = 1


(***************************************************************************)
(* The self-play server.                                                   *)
(***************************************************************************)
\* the FinishedFile messages written to the client, in order
FinishedFiles == SelectSeq(server.writer, LAMBDA m : m.kind = "FinishedFile")

\* C25: with games_per_gen >= 1, when the collector has received n
\* FinishedSimulation updates, among any other updates, it has written
\* exactly n \div games_per_gen FinishedFile messages; their indices are
\* first_gen, first_gen + 1, ... in this order; the output of every index
\* written holds exactly games_per_gen simulations and is finished; and
\* the open output holds the remaining n % games_per_gen simulations
C25_Generations ==
    (prog = "server" /\ server.collector.pc # "unspawned"
        /\ server.collector.games_per_file >= 1) =>
    LET c == server.collector
        files == FinishedFiles
    IN /\ Len(files) = c.simulations \div c.games_per_file
       /\ \A i \in 1..Len(files) :
            /\ files[i].index = c.first_gen + i - 1
            /\ c.outputs[i] = [count |-> c.games_per_file, finished |-> TRUE]
       /\ Len(c.outputs) = Len(files) + 1
       /\ c.outputs[Len(c.outputs)] =
              [count |-> c.simulations % c.games_per_file, finished |-> FALSE]

\* a generation of two simulations has been closed and its FinishedFile
\* written, after a state where it held one simulation
C25_Witness ==
    /\ prog = "server" /\ server.collector.pc # "unspawned"
    /\ server.collector.games_per_file = 2
    /\ server.collector.simulations = 2
    /\ Len(FinishedFiles) = 1
    /\ FinishedFiles[1].index = server.collector.first_gen


Generators == DOMAIN server.generators

\* C26: no generator panics on a send to the update channel, whatever the
\* order in which the commander stops, the collector returns and the
\* generators play on
C26_NoSendPanic ==
    prog = "server" => \A g \in Generators : server.generators[g].pc # "panic_send"

\* a generator that has seen the closed settings channel at try_recv has
\* returned, and starts no game after that (the part of C26 that holds)
C26_ReturnsOnClosure ==
    [][prog = "server" =>
         \A g \in Generators :
             server.generators[g].pc = "returned" =>
                 /\ server.cmd[g].senders_dropped /\ server.cmd[g].queue = <<>>
                 /\ server'.generators[g] = server.generators[g]]_vars

\* C27: when the first command read is not StartupSettings, the server has
\* failed with no generator and no collector started, no channel used and
\* nothing written to the client or to an output
C27_StartupFirst ==
    (prog = "server" /\ server.first \notin {"", "StartupSettings"}) =>
        /\ server.main = "panic"
        /\ server.fail = "Must receive startup settings before any other command"
        /\ server.generators = <<>> /\ server.cmd = <<>>
        /\ server.collector.pc = "unspawned"
        /\ server.update.queue = <<>>
        /\ server.writer = <<>>

\* the client opened with Stop and the server failed
C27_Witness ==
    prog = "server" /\ server.first = "Stop" /\ server.main = "panic"

\* C28: no generator is ever spawned with batch_size = 0, and none after an
\* unknown game id
C28_ConfigRejected ==
    prog = "server" =>
        /\ \A g \in Generators : server.generators[g].batch_size # 0
        /\ server.fail = "Unknown game" => (server.main = "panic" /\ server.generators = <<>>)

\* the part of C28 that holds: an unknown game id fails before any thread
C28_UnknownGameRejected ==
    (prog = "server" /\ server.fail = "Unknown game") =>
        /\ server.main = "panic" /\ server.generators = <<>>
        /\ server.collector.pc = "unspawned"

\* C29: a returned simulation ends on a terminal board or holds exactly
\* max_game_length positions (stated for the generators whose searches end,
\* those with batch_size >= 1)
C29_StopsAtTerminalOrCap ==
    prog = "server" =>
        \A g \in Generators :
            LET gen == server.generators[g] IN
            (gen.pc = "simulation" /\ gen.batch_size # 0) =>
                \/ is_done(gen.curr_board[1])
                \/ /\ gen.settings[1].max_game_length # None
                   /\ gen.settings[1].max_game_length[1] = u64(0, Len(gen.positions))

\* the parts of C29 that hold: never more positions than max_game_length,
\* and without max_game_length the game ends on a terminal board
C29_AtMostCap ==
    prog = "server" =>
        \A g \in Generators :
            LET gen == server.generators[g]
                cap == gen.settings[1].max_game_length
            IN gen.pc \in {"game", "simulation"} =>
                 /\ cap # None => (cap[1].hi > 0 \/ Len(gen.positions) <= cap[1].lo)
                 /\ (cap = None /\ gen.pc = "simulation") => is_done(gen.curr_board[1])

\* C30 as claimed: every recorded position comes from a full search
C30_OnlyFullRecorded ==
    prog = "server" =>
        \A g \in Generators :
            \A i \in DOMAIN server.generators[g].positions :
                server.generators[g].positions[i].is_full_search

\* C30: every move played has appended one position, and the position's
\* is_full_search tells whether the move was searched with full_iterations
\* or with part_iterations
C30_EveryMoveRecorded ==
    prog = "server" =>
        \A g \in Generators :
            LET gen == server.generators[g] IN
            gen.pc \in {"game", "simulation"} =>
                /\ Len(gen.positions) = gen.played
                /\ gen.played > 0 =>
                     LET recorded == gen.positions[Len(gen.positions)] IN
                     /\ recorded.is_full_search =>
                            gen.target_visits = Some(gen.settings[1].full_iterations)
                     /\ ~recorded.is_full_search =>
                            gen.target_visits = Some(gen.settings[1].part_iterations)

\* a game of two moves, the first searched in full and the second in part,
\* both recorded
C30_Witness ==
    /\ prog = "server"
    /\ \E g \in Generators :
         LET gen == server.generators[g] IN
         /\ gen.pc = "simulation" /\ gen.played = 2 /\ Len(gen.positions) = 2
         /\ gen.positions[1].is_full_search /\ ~gen.positions[2].is_full_search


\* the policy slots of the legal moves of a board
LegalSlots(board) ==
    {mapper_move_to_index(board, available_moves(board)[i]) : i \in DOMAIN available_moves(board)}

C38_RawNetEvaluation ==
    prog = "server" =>
        \A g \in Generators :
            LET gen == server.generators[g] IN
            /\ gen.pc = "search" =>
                 gen.root_net_eval =
                     Some(extract_zero_eval(gen.curr_board[1], root_net(gen.curr_board[1])))
            /\ \A i \in DOMAIN gen.positions :
                 gen.positions[i].net_evaluation =
                     extract_zero_eval(gen.positions[i].board, root_net(gen.positions[i].board))

\* a position is recorded for a board with two legal moves: its search mixed
\* noise into the root policy, and there is noise with which the noised
\* policy gives another evaluation than the one recorded
C38_Witness ==
    /\ prog = "server"
    /\ \E g \in Generators :
         LET gen == server.generators[g] IN
         /\ gen.positions # <<>>
         /\ LET board == gen.positions[1].board IN
            /\ Len(available_moves(board)) = 2
            /\ \E noise \in NoiseSamples(2) :
                 gen.positions[1].net_evaluation #
                     extract_zero_eval(board,
                         [root_net(board) EXCEPT !.policy_logits =
                             add_dirichlet_noise(@, gen.settings[1], board, noise)])

C32_RandomMoveAvailable ==
    (prog = "board" /\ random_move # None) =>
        LET move == random_move[1].move IN
        /\ ~panic
        /\ (move = None) <=> Board_is_done(sttt)
        /\ move # None =>
             /\ Board_is_available_move(sttt, move[1])
             /\ \E k \in DOMAIN Board_available_moves(sttt) :
                  Board_available_moves(sttt)[k] = move[1]

\* a move is drawn on a board whose mask is one macro with other macros open,
\* and one on a board with a free choice of macro, beyond the first macro
C32_Witness ==
    /\ prog = "board" /\ random_move # None /\ random_move[1].move # None
    /\ count_tiles(sttt) > MaxPlies
    /\ Cardinality(sttt.macro_mask) > 1
    /\ Coord_om(random_move[1].move[1]) # SetMin(sttt.macro_mask)

\* random_available_move returns None on a board that is done
C32_WitnessDone ==
    /\ prog = "board" /\ random_move # None /\ random_move[1].move = None
    /\ Board_is_done(sttt)

\* C40: a board reached by legal play that is not done has an available
\* move; its macro_mask is a non-empty subset of macro_open, no macro of
\* macro_open is won or full, a board without open macro is done, and every
\* move enumerated is an empty tile of the board
C40_AlwaysAMove ==
    prog = "board" =>
        /\ sttt.macro_open = {} => Board_is_done(sttt)
        /\ \A om \in sttt.macro_open :
             /\ compact_grid(sttt.grids[om]) # FULL_MASK
             /\ ~is_win_grid(sttt.grids[om] \cap FULL_MASK)
             /\ ~is_win_grid(shr(sttt.grids[om], 9) \cap FULL_MASK)
        /\ ~Board_is_done(sttt) =>
             /\ Len(Board_available_moves(sttt)) >= 1
             /\ sttt.macro_mask # {}
             /\ sttt.macro_mask \subseteq sttt.macro_open
             /\ \A k \in DOMAIN Board_available_moves(sttt) :
                  LET c == Board_available_moves(sttt)[k] IN
                  /\ c \in 0..80 /\ Coord_os(c) \in 0..8
                  /\ ~has_bit(compact_grid(sttt.grids[Coord_om(c)]), Coord_os(c))

\* the last open macro is closed by a tile that fills it without winning it:
\* the board is done, drawn
C40_Witness ==
    /\ prog = "board"
    /\ sttt.macro_open = {} /\ sttt.won_by = Some("Neutral")
    /\ compact_grid(sttt.grids[Coord_om(sttt.last_move[1])]) = FULL_MASK
    /\ ~is_win_grid(sttt.grids[Coord_om(sttt.last_move[1])] \cap FULL_MASK)
    /\ ~is_win_grid(shr(sttt.grids[Coord_om(sttt.last_move[1])], 9) \cap FULL_MASK)

\* a board that is not done whose last move sent the player to a closed
\* macro: the mask is all the open macros
C40_WitnessFreeChoice ==
    /\ prog = "board" /\ ~Board_is_done(sttt)
    /\ sttt.last_move # None
    /\ Coord_os(sttt.last_move[1]) \notin sttt.macro_open
    /\ Cardinality(sttt.macro_mask) > 1


\* C33 as stated: IdxRange::new succeeds exactly for start >= 1 and
\* 1 <= end - start <= 256
C33_Orig_UpTo256 ==
    (prog = "idx_range" /\ idx_range.stage = "done") =>
        ((idx_range.range # None) <=>
            (idx_range.start >= 1 /\ idx_range.end - idx_range.start \in 1..256))

\* C33: IdxRange::new succeeds exactly for start >= 1 and
\* 1 <= end - start <= 255; the range made stores the start and the length,
\* a length that fits in one byte, and iterates over start..end
C33_UpTo255 ==
    (prog = "idx_range" /\ idx_range.stage = "done") =>
        /\ (idx_range.range # None) <=>
               (idx_range.start >= 1 /\ idx_range.end - idx_range.start \in 1..255)
        /\ idx_range.range # None =>
               /\ idx_range.range[1].start = idx_range.start /\ idx_range.range[1].start # 0
               /\ idx_range.range[1].length \in 1..U8_MAX
               /\ IdxRange_iter(idx_range.range[1]) =
                      [i \in 1..(idx_range.end - idx_range.start) |-> idx_range.start + i - 1]

\* a range of 255 children is made, and the call for 256 children has failed
C33_Witness ==
    /\ prog = "idx_range" /\ idx_range.stage = "done"
    /\ idx_range.start = 1 /\ idx_range.end = 256
    /\ idx_range.range # None /\ idx_range.range[1].length = 255

\* the call for 256 children panics
C33_Witness256 ==
    /\ prog = "idx_range" /\ idx_range.stage = "done"
    /\ idx_range.start = 1 /\ idx_range.end = 257
    /\ idx_range.range = None /\ panic


\* C34: in a tree returned by keep_move the parent field of every node but
\* the root is the index, in the new arena, of the node whose children range
\* contains it, so a propagation from any node ends at index 0 having
\* updated the node's ancestors and no other node
C34_KeptParents ==
    (prog = "zero_state" /\ kept # None /\ kept[1].kind = "Tree") =>
        LET t == kept[1].nodes IN
        \A c \in Nodes(t) \ {0} :
            /\ NodeAt(t, c).parent \in Nodes(t)
            /\ c \in RangeOf(t, NodeAt(t, c).parent)


\* the nodes named by the pending requests, in the order of the requests
PendingNodes ==
    [i \in 1..Len(requests) |-> IF prog = "zero_state" THEN requests[i].curr_node
                                ELSE requests[i].node]

\* C35: no two pending requests name the same node and expected_nodes holds
\* no index twice; a node awaiting its evaluation is expanded, so a later
\* gather descends into its children
C35_DistinctPending ==
    prog \in StepProgs \cup {"zero_state"} =>
        /\ \A i, j \in 1..Len(requests) : i # j => PendingNodes[i] # PendingNodes[j]
        /\ \A i, j \in 1..Len(expected_nodes) : i # j => expected_nodes[i] # expected_nodes[j]
        /\ \A i \in 1..Len(requests) :
             /\ PendingNodes[i] \in Nodes(tree)
             /\ NodeAt(tree, PendingNodes[i]).children # None

\* a gather has passed through a node that awaits its evaluation and has
\* expanded one of its children: both are pending
C35_Witness ==
    /\ prog \in StepProgs
    /\ \E i, j \in 1..Len(requests) :
         /\ i < j
         /\ PendingNodes[j] \in RangeOf(tree, PendingNodes[i])
         /\ NodeAt(tree, PendingNodes[i]).net_values = None

\* the same in ZeroState, with both nodes in expected_nodes
C35_WitnessZeroState ==
    /\ prog = "zero_state"
    /\ Len(expected_nodes) >= 2
    /\ expected_nodes[2] \in RangeOf(tree, expected_nodes[1])
    /\ NodeAt(tree, expected_nodes[1]).net_wdl = None


\* the response is the one run_until_result expects: one sub-response per
\* expected node, in the order of expected_nodes, each with a policy that
\* has one entry per move and sums to 1
ResponseMatches(subs, expected) ==
    /\ Len(subs) = Len(expected)
    /\ \A i \in 1..Len(subs) :
         /\ subs[i].request.curr_node = expected[i]
         /\ Len(subs[i].evaluation.policy) = Len(available_moves(subs[i].request.curr_board))
         /\ policy_sum_ok(subs[i].evaluation.policy)

\* C36: a call of run_until_result passes its first part exactly when it is
\* handed None with no request outstanding or, with requests outstanding, a
\* response that matches expected_nodes in count and order; after a
\* response is applied expected_nodes is empty; never more than batch_size
\* requests are outstanding
C36_Alternation ==
    /\ [](prog = "zero_state" => Len(expected_nodes) <= batch_size)
    /\ [][(prog = "zero_state" /\ pc = "loop" /\ pc' = "run") =>
            /\ response = None => (~panic' <=> expected_nodes = <<>>)
            /\ response # None =>
                 /\ ~panic' <=> (expected_nodes # <<>> /\ ResponseMatches(response[1], expected_nodes))
                 /\ expected_nodes' = <<>>
            /\ ~panic' => (response # None <=> expected_nodes # <<>>)]_vars

\* a response for two requests has been handed in and applied, and no
\* request is outstanding
C36_Witness ==
    /\ prog = "zero_state" /\ pc = "run" /\ ~panic /\ last.op = "loop"
    /\ batch_size >= 2 /\ expected_nodes = <<>>
    /\ NodeAt(tree, 0).visits = 2
    /\ Cardinality({n \in Nodes(tree) : NodeAt(tree, n).net_wdl # None}) = 2

\* a call of run_until_result has failed
C36_WitnessRefused ==
    /\ prog = "zero_state" /\ panic /\ pc = "run"
    /\ last.op = "loop"

\* the tree without what one propagation of wdl0 from node curr_index, with
\* a visit counted, has added to it
RECURSIVE unpropagate(_, _, _)
unpropagate(t, curr_index, wdl0) ==
    LET wdl == WDL_flip(wdl0)
        t1 == [t EXCEPT ![curr_index + 1] =
                  [@ EXCEPT !.visits = @ - 1, !.total_wdl = WDL_sub(@, wdl)]]
    IN  IF curr_index = 0 THEN t1 ELSE unpropagate(t1, NodeAt(t, curr_index).parent, wdl)

\* the tree without the virtual loss of the nodes awaiting their evaluation
RECURSIVE NoVirtual(_, _)
NoVirtual(t, expected) ==
    IF expected = <<>> THEN t
    ELSE NoVirtual(unpropagate(t, expected[1], VIRTUAL_WDL), Tail(expected))

\* the tree after the evaluations are stored and each wdl is propagated
\* once, as a visit, from its node
RECURSIVE ApplyReal(_, _)
ApplyReal(t, subs) ==
    IF subs = <<>> THEN t
    ELSE LET curr_node == subs[1].request.curr_node
             ps == for_each_original_move_and_policy(subs[1].request.curr_board,
                                                     subs[1].request.sym, subs[1].evaluation.policy)
             t1 == [t EXCEPT ![curr_node + 1].net_wdl = Some(subs[1].evaluation.wdl)]
             t2 == set_child_policies(t1, NodeAt(t1, curr_node).children[1], ps[1])
         IN  ApplyReal(propagate_wdl(t2, curr_node, subs[1].evaluation.wdl, TRUE), Tail(subs))

\* C37: after a response is applied the tree is the one in which no virtual
\* loss was added at the expansions and each network wdl was propagated once
\* from its node: on the path to the root every node has one more visit and
\* the wdl, flipped at every step, added to its total_wdl
C37_VirtualLossCancelled ==
    [][(prog = "zero_state" /\ pc = "loop" /\ pc' = "run" /\ response # None /\ ~panic') =>
          tree' = ApplyReal(NoVirtual(tree, expected_nodes), response[1])]_vars

\* a response for the root and one of its children has been applied
C37_Witness ==
    /\ prog = "zero_state" /\ pc = "run" /\ ~panic /\ last.op = "loop"
    /\ expected_nodes = <<>>
    /\ \E n \in Nodes(tree) \ {0} :
         /\ NodeAt(tree, n).net_wdl # None
         /\ NodeAt(tree, n).visits = 1
         /\ NodeAt(tree, n).total_wdl = WDL_flip(NodeAt(tree, n).net_wdl[1])
    /\ NodeAt(tree, 0).visits = 2

====
